---------------------------- MODULE Spec2Model ----------------------------
(***************************************************************************)
(* A model of the RAG pipeline of rag-studies.                             *)
(*                                                                         *)
(*   Spec        RAGEngine (src/src/core/engine.py) driving a              *)
(*               ChromaVectorStore (src/src/vector_stores/chroma_store.py) *)
(*   SpecSearch  SimpleSearchEngine                                        *)
(*               (src/apps/interactive-chat/search_engine.py)              *)
(*   SpecReview  the response parser of CodeReviewCapacity                 *)
(*               (src/src/capacities/code_review/reviewer.py)              *)
(*                                                                         *)
(* Python dicts are functions with a string domain: a key the dict does    *)
(* not hold is not in DOMAIN, dict.update(kw) is kw @@ dict.  None is the  *)
(* record None.  Floats are kept in tenths (0.5 is 5).                     *)
(***************************************************************************)
EXTENDS Integers, Sequences, FiniteSets, TLC

VARIABLES
    is_indexed,        \* RAGEngine.is_indexed
    retriever,         \* RAGEngine.retriever: None or the retriever built
    retriever_config,  \* RAGEngine.retriever_config (a dict)
    vectorstore,       \* ChromaVectorStore.vectorstore: None or the collection
    last,              \* what the last call on the engine did and returned
    documents,         \* SimpleSearchEngine.documents
    found,             \* the last find_relevant_context call and its result
    review,            \* the last process_response call and its result
    ollama,            \* an OllamaLLM, the server it talks to, its last call
    assistant,         \* a CodeAssistant and the last call on it
    capacity           \* the last BaseCapacity.execute call and its result

engineVars == <<is_indexed, retriever, retriever_config, vectorstore, last>>
searchVars == <<documents, found>>
reviewVars == <<review>>
appVars == <<ollama, assistant, capacity>>
vars == <<engineVars, searchVars, reviewVars, appVars>>

None == [none |-> TRUE]
EmptyDict == <<>>

Min(a, b) == IF a <= b THEN a ELSE b

(***************************************************************************)
(* Bounds of the model.                                                    *)
(***************************************************************************)
\* the collection holds at most this many chunks (guards add_documents)
MaxStore == 4

(***************************************************************************)
(* Inputs.                                                                 *)
(***************************************************************************)
\* a document and the number of chunks the text splitter cuts it into
SmallDoc == [source |-> "small.py", chunks |-> 1]
LargeDoc == [source |-> "large.py", chunks |-> 2]

\* what loader.load(path, glob) can return
Loads == {<<>>, <<SmallDoc>>, <<LargeDoc>>, <<SmallDoc, LargeDoc>>}

\* retriever_config arguments of the constructor (None and {} are both falsy)
InitConfigs ==
    { EmptyDict,
      [k |-> 3],
      [search_type |-> "mmr", k |-> 10, score_threshold |-> 7] }

\* keyword arguments of update_retriever_config and of ask(retriever_kwargs=)
Kwargs ==
    { EmptyDict,
      [k |-> 3],
      [search_type |-> "similarity"],
      [search_type |-> "similarity_score_threshold", score_threshold |-> 7],
      [search_type |-> "bogus"] }

\* the error texts the external collaborators raise with
LoaderErrors == {"Load Error"}
StoreErrors == {"Chroma Error"}
RetrieverErrors == {"Embedding Error"}
LLMErrors == {"LLM Error"}

(***************************************************************************)
(* ChromaVectorStore                                                       *)
(***************************************************************************)
\* text_splitter.split_documents([doc]) for every doc, in order
RECURSIVE split_documents(_)
split_documents(docs) ==
    IF docs = <<>> THEN <<>>
    ELSE LET doc == Head(docs)
         IN [i \in 1..doc.chunks |-> [source |-> doc.source, part |-> i]]
            \o split_documents(Tail(docs))

\* a plausible slip: the store is rebuilt from the new chunks on every call
store_chunks_Replace(vs, all_chunks) == [collection |-> all_chunks]

\* the collection after the chunks went in: a new store when there is none,
\* otherwise the chunks are added to the one that exists
store_chunks(vs, all_chunks) ==
    IF vs = None
    THEN [collection |-> all_chunks]
    ELSE [collection |-> vs.collection \o all_chunks]

\* the ids add_documents returns: doc_0 .. doc_{n-1}
doc_ids(all_chunks) == [i \in 1..Len(all_chunks) |-> i - 1]

\* add_documents(documents); outcome is "ok", "raise_add" (from_documents /
\* add_documents of the backend raised) or "raise_persist" (persist raised)
add_documents(vs, docs, outcome, err) ==
    LET all_chunks == split_documents(docs)
    IN  IF docs = <<>>
        THEN [raised |-> FALSE, error |-> <<>>, ids |-> <<>>, vectorstore |-> vs]
        ELSE CASE outcome = "raise_add" ->
                    [raised |-> TRUE,
                     error |-> <<"Erro ao adicionar documentos: ", err>>,
                     ids |-> <<>>, vectorstore |-> vs]
               [] outcome = "raise_persist" ->
                    [raised |-> TRUE,
                     error |-> <<"Erro ao adicionar documentos: ", err>>,
                     ids |-> <<>>, vectorstore |-> store_chunks(vs, all_chunks)]
               [] OTHER ->
                    [raised |-> FALSE, error |-> <<>>,
                     ids |-> doc_ids(all_chunks),
                     vectorstore |-> store_chunks(vs, all_chunks)]

\* a keyword argument, or the default of the signature
Arg(kw, key, default) == IF key \in DOMAIN kw THEN kw[key] ELSE default

\* get_retriever(**kw)
get_retriever(vs, kw) ==
    LET search_type == Arg(kw, "search_type", "similarity")
        k == Arg(kw, "k", 4)
        score_threshold == Arg(kw, "score_threshold", 5)
        built(search_kwargs) ==
            [raised |-> FALSE, error |-> <<>>,
             retriever |-> [search_type |-> search_type,
                            search_kwargs |-> search_kwargs]]
    IN  IF vs = None
        THEN [raised |-> TRUE,
              error |-> <<"Vector store nao foi inicializado. Adicione documentos primeiro.">>,
              retriever |-> None]
        ELSE CASE search_type = "similarity" -> built([k |-> k])
               [] search_type = "similarity_score_threshold" ->
                    built([k |-> k, score_threshold |-> score_threshold])
               [] search_type = "mmr" -> built([k |-> k, fetch_k |-> k * 2])
               [] OTHER ->
                    [raised |-> TRUE,
                     error |-> <<"Erro ao criar retriever: ",
                                 "Tipo de busca nao suportado: ", search_type>>,
                     retriever |-> None]

\* delete_collection(); ok is whether the backend's delete succeeds
delete_collection(vs, ok, err) ==
    IF vs # None
    THEN IF ok
         THEN [raised |-> FALSE, error |-> <<>>, vectorstore |-> None]
         ELSE [raised |-> TRUE,
               error |-> <<"Erro ao remover colecao: ", err>>,
               vectorstore |-> vs]
    ELSE [raised |-> FALSE, error |-> <<>>, vectorstore |-> vs]

\* the number of documents retriever.invoke(question) returns: the k nearest
\* chunks of the collection, fewer when a score threshold drops some
RetrievedCounts(r, vs) ==
    LET top == Min(r.search_kwargs.k, Len(vs.collection))
    IN  IF r.search_type = "similarity_score_threshold" THEN 0..top ELSE {top}

(***************************************************************************)
(* RAGEngine                                                               *)
(***************************************************************************)
\* the engine and the store it drives, as one value
Self == [is_indexed |-> is_indexed, retriever |-> retriever,
         retriever_config |-> retriever_config, vectorstore |-> vectorstore]

\* the constructor's "retriever_config or {...}"
DefaultRetrieverConfig ==
    [search_type |-> "similarity", k |-> 4, score_threshold |-> 5]

InitRetrieverConfig(arg) ==
    IF arg = EmptyDict THEN DefaultRetrieverConfig ELSE arg

\* the calls a method made on its collaborators
NoCalls == [add_documents |-> 0, get_retriever |-> 0, invoke |-> 0, llm_ask |-> 0]

\* a plausible slip: the empty load is not rejected
NoDocuments_Unchecked(docs) == FALSE

\* "if not docs"
NoDocuments(docs) == docs = <<>>

\* the dict setup_pipeline returns from its except branch
SetupError(e) ==
    [status |-> "error", documents_loaded |-> 0, documents_indexed |-> 0,
     error |-> <<"Erro ao configurar pipeline: ">> \o e]

\* the stats dict of a successful setup_pipeline
SetupStats(docs, ids, cfg) ==
    [status |-> "success", documents_loaded |-> Len(docs),
     documents_indexed |-> Len(ids), error |-> <<>>,
     retriever_config |-> cfg]

\* the print after step 3 reads retriever_config['search_type']
PrintsRetrieverType(cfg) == "search_type" \in DOMAIN cfg

\* setup_pipeline(path, glob): load is what loader.load did, add_outcome and
\* store_err what the backend of the store does
setup_pipeline(self, load, add_outcome, store_err) ==
    LET docs == load.docs
        added == add_documents(self.vectorstore, docs, add_outcome, store_err)
        got == get_retriever(added.vectorstore, self.retriever_config)
        stored == [self EXCEPT !.vectorstore = added.vectorstore]
        withRetriever == [stored EXCEPT !.retriever = got.retriever]
    IN  IF load.raised
        THEN [self |-> self, result |-> SetupError(load.error), calls |-> NoCalls]
        ELSE IF NoDocuments(docs)
        THEN [self |-> self,
              result |-> SetupError(<<"Nenhum documento foi carregado">>),
              calls |-> NoCalls]
        ELSE IF added.raised
        THEN [self |-> stored, result |-> SetupError(added.error),
              calls |-> [NoCalls EXCEPT !.add_documents = 1]]
        ELSE IF got.raised
        THEN [self |-> stored, result |-> SetupError(got.error),
              calls |-> [NoCalls EXCEPT !.add_documents = 1, !.get_retriever = 1]]
        ELSE IF ~PrintsRetrieverType(self.retriever_config)
        THEN [self |-> withRetriever, result |-> SetupError(<<"'search_type'">>),
              calls |-> [NoCalls EXCEPT !.add_documents = 1, !.get_retriever = 1]]
        ELSE [self |-> [withRetriever EXCEPT !.is_indexed = TRUE],
              result |-> SetupStats(docs, added.ids, self.retriever_config),
              calls |-> [NoCalls EXCEPT !.add_documents = 1, !.get_retriever = 1]]

\* a plausible slip: the guard of ask tests the retriever, not the flag
NotIndexed_ByRetriever(self) == self.retriever = None

\* "if not self.is_indexed"
NotIndexed(self) == ~self.is_indexed

\* a plausible slip: the per-call keyword arguments are ignored
UsesCustomRetriever_Never(kw) == FALSE

\* "if retriever_kwargs": None and {} are falsy
UsesCustomRetriever(kw) == kw # EmptyDict

\* the dict ask returns when the engine is not indexed
NotIndexedResult ==
    [status |-> "error",
     answer |-> <<"Sistema nao esta indexado. Execute setup_pipeline() primeiro.">>,
     error |-> <<>>, sources |-> 0, retrieved_docs_count |-> 0]

\* a plausible slip: the except branch drops the text of the exception
AskError_NoText(e) ==
    [status |-> "error",
     answer |-> <<"Erro interno: ", "Erro ao processar pergunta: ">>,
     error |-> <<"Erro ao processar pergunta: ">>,
     sources |-> 0, retrieved_docs_count |-> 0]

\* the dict ask returns from its except branch
AskError(e) ==
    [status |-> "error",
     answer |-> <<"Erro interno: ", "Erro ao processar pergunta: ">> \o e,
     error |-> <<"Erro ao processar pergunta: ">> \o e,
     sources |-> 0, retrieved_docs_count |-> 0]

\* the dict a successful ask returns; n documents were retrieved
AskResult(answer, n, include_sources) ==
    [status |-> "success", answer |-> <<answer>>, error |-> <<>>,
     sources |-> IF include_sources THEN n ELSE 0,
     retrieved_docs_count |-> n]

\* ask(question, include_sources, retriever_kwargs=kw): invoke is what
\* retriever.invoke does (n documents, or it raises), llm what llm.ask does
ask(self, include_sources, kw, invoke, llm) ==
    LET custom == UsesCustomRetriever(kw)
        temp == get_retriever(self.vectorstore, kw)
        used == IF custom THEN temp.retriever ELSE self.retriever
        one(c) == [NoCalls EXCEPT ![c] = 1]
        got == IF custom THEN one("get_retriever") ELSE NoCalls
    IN  IF NotIndexed(self)
        THEN [self |-> self, result |-> NotIndexedResult, calls |-> NoCalls,
              used |-> None]
        ELSE IF custom /\ temp.raised
        THEN [self |-> self, result |-> AskError(temp.error), calls |-> got,
              used |-> None]
        ELSE IF used = None
        THEN [self |-> self,
              result |-> AskError(<<"'NoneType' object has no attribute 'invoke'">>),
              calls |-> got, used |-> None]
        ELSE IF invoke.raised
        THEN [self |-> self, result |-> AskError(<<invoke.error>>),
              calls |-> [got EXCEPT !.invoke = 1], used |-> used]
        ELSE IF llm.raised
        THEN [self |-> self, result |-> AskError(<<llm.error>>),
              calls |-> [got EXCEPT !.invoke = 1, !.llm_ask = 1], used |-> used]
        ELSE [self |-> self,
              result |-> AskResult(llm.answer, invoke.n, include_sources),
              calls |-> [got EXCEPT !.invoke = 1, !.llm_ask = 1], used |-> used]

\* self.retriever_config.update(kwargs)
UpdatedConfig(cfg, kw) == kw @@ cfg

\* update_retriever_config(**kw); the exception of get_retriever is not caught
update_retriever_config(self, kw) ==
    LET updated == [self EXCEPT
                      !.retriever_config = UpdatedConfig(self.retriever_config, kw)]
        got == get_retriever(self.vectorstore, updated.retriever_config)
    IN  IF self.is_indexed
        THEN IF got.raised
             THEN [self |-> updated,
                   result |-> [status |-> "raised", error |-> got.error],
                   calls |-> [NoCalls EXCEPT !.get_retriever = 1]]
             ELSE [self |-> [updated EXCEPT !.retriever = got.retriever],
                   result |-> [status |-> "returned", error |-> <<>>],
                   calls |-> [NoCalls EXCEPT !.get_retriever = 1]]
        ELSE [self |-> updated,
              result |-> [status |-> "returned", error |-> <<>>],
              calls |-> NoCalls]

\* get_system_info(): the two entries that report the state of the index
get_system_info(self) ==
    [status |-> IF self.is_indexed THEN "indexed" ELSE "not_indexed",
     retriever_config |-> self.retriever_config,
     has_retriever |-> self.retriever # None]

\* a plausible slip: the flag is reset but the retriever is kept
clear_index_KeepsRetriever(self, delete_ok, store_err) ==
    LET deleted == delete_collection(self.vectorstore, delete_ok, store_err)
    IN  IF deleted.raised
        THEN [self |-> [self EXCEPT !.vectorstore = deleted.vectorstore],
              result |-> [status |-> "returned", error |-> deleted.error],
              calls |-> NoCalls]
        ELSE [self |-> [self EXCEPT !.vectorstore = deleted.vectorstore,
                                    !.is_indexed = FALSE],
              result |-> [status |-> "returned", error |-> <<>>],
              calls |-> NoCalls]

\* clear_index(): the exception of delete_collection is caught and printed
clear_index(self, delete_ok, store_err) ==
    LET deleted == delete_collection(self.vectorstore, delete_ok, store_err)
    IN  IF deleted.raised
        THEN [self |-> [self EXCEPT !.vectorstore = deleted.vectorstore],
              result |-> [status |-> "returned", error |-> deleted.error],
              calls |-> NoCalls]
        ELSE [self |-> [self EXCEPT !.vectorstore = deleted.vectorstore,
                                    !.retriever = None,
                                    !.is_indexed = FALSE],
              result |-> [status |-> "returned", error |-> <<>>],
              calls |-> NoCalls]


(***************************************************************************)
(* Python strings are sequences of one-character strings.                  *)
(***************************************************************************)
\* str.lower() on the letters A-Z and the accented capitals of Portuguese
UpperToLower ==
    ("A" :> "a") @@ ("B" :> "b") @@ ("C" :> "c") @@ ("D" :> "d") @@
    ("E" :> "e") @@ ("F" :> "f") @@ ("G" :> "g") @@ ("H" :> "h") @@
    ("I" :> "i") @@ ("J" :> "j") @@ ("K" :> "k") @@ ("L" :> "l") @@
    ("M" :> "m") @@ ("N" :> "n") @@ ("O" :> "o") @@ ("P" :> "p") @@
    ("Q" :> "q") @@ ("R" :> "r") @@ ("S" :> "s") @@ ("T" :> "t") @@
    ("U" :> "u") @@ ("V" :> "v") @@ ("W" :> "w") @@ ("X" :> "x") @@
    ("Y" :> "y") @@ ("Z" :> "z") @@
    ("Á" :> "á") @@ ("Â" :> "â") @@ ("Ã" :> "ã") @@ ("Ç" :> "ç") @@
    ("É" :> "é") @@ ("Ê" :> "ê") @@ ("Í" :> "í") @@ ("Ó" :> "ó") @@
    ("Õ" :> "õ") @@ ("Ú" :> "ú")

lower(s) ==
    [i \in 1..Len(s) |->
        IF s[i] \in DOMAIN UpperToLower THEN UpperToLower[s[i]] ELSE s[i]]

\* the characters str.split() splits at
Whitespace == {" ", "\n", "\t", "\r"}

\* s.split(): the maximal runs of non-whitespace characters, in order
RECURSIVE split(_)
split(s) ==
    IF s = <<>> THEN <<>>
    ELSE IF Head(s) \in Whitespace THEN split(Tail(s))
    ELSE LET stops == {i \in 1..Len(s) : s[i] \in Whitespace}
             end == IF stops = {} THEN Len(s) + 1
                    ELSE CHOOSE i \in stops : \A j \in stops : i <= j
         IN  <<SubSeq(s, 1, end - 1)>> \o split(SubSeq(s, end, Len(s)))

\* sub occurs in s at position i
OccursAt(s, sub, i) ==
    /\ i + Len(sub) - 1 <= Len(s)
    /\ \A j \in 1..Len(sub) : s[i + j - 1] = sub[j]

\* "sub in s"
contains(s, sub) == \E i \in 1..(Len(s) + 1) : OccursAt(s, sub, i)

\* s.count(sub): the non-overlapping occurrences of sub, found left to right
RECURSIVE count_from(_, _, _)
count_from(s, sub, i) ==
    LET hits == {j \in i..(Len(s) - Len(sub) + 1) : OccursAt(s, sub, j)}
    IN  IF hits = {} THEN 0
        ELSE LET first == CHOOSE j \in hits : \A h \in hits : j <= h
             IN  1 + count_from(s, sub, first
                                 + (IF sub = <<>> THEN 1 ELSE Len(sub)))

count(s, sub) == count_from(s, sub, 1)

RECURSIVE SumSeq(_)
SumSeq(ns) == IF ns = <<>> THEN 0 ELSE Head(ns) + SumSeq(Tail(ns))

(***************************************************************************)
(* SimpleSearchEngine                                                      *)
(***************************************************************************)
\* self.keyword_mapping: component -> keywords
keyword_mapping ==
    <<
      [component |-> <<"l", "o", "a", "d", "e", "r">>,
       keywords |-> <<<<"l", "o", "a", "d", "e", "r">>,
                      <<"l", "o", "a", "d">>,
                      <<"d", "o", "c", "u", "m", "e", "n", "t">>,
                      <<"p", "y", "t", "h", "o", "n">>,
                      <<"c", "a", "r", "r", "e", "g", "a", "r">>>>],
      [component |-> <<"l", "l", "m">>,
       keywords |-> <<<<"l", "l", "m">>,
                      <<"m", "o", "d", "e", "l">>,
                      <<"g", "e", "m", "i", "n", "i">>,
                      <<"o", "l", "l", "a", "m", "a">>,
                      <<"p", "e", "r", "g", "u", "n", "t", "a">>,
                      <<"r", "e", "s", "p", "o", "s", "t", "a">>,
                      <<"a", "s", "k">>>>],
      [component |-> <<"v", "e", "c", "t", "o", "r">>,
       keywords |-> <<<<"v", "e", "c", "t", "o", "r">>,
                      <<"s", "t", "o", "r", "e">>,
                      <<"c", "h", "r", "o", "m", "a">>,
                      <<"e", "m", "b", "e", "d", "d", "i", "n", "g">>,
                      <<"r", "e", "t", "r", "i", "e", "v", "e", "r">>>>],
      [component |-> <<"e", "n", "g", "i", "n", "e">>,
       keywords |-> <<<<"e", "n", "g", "i", "n", "e">>,
                      <<"r", "a", "g">>,
                      <<"p", "i", "p", "e", "l", "i", "n", "e">>,
                      <<"s", "e", "t", "u", "p">>>>],
      [component |-> <<"b", "a", "s", "e">>,
       keywords |-> <<<<"b", "a", "s", "e">>,
                      <<"a", "b", "s", "t", "r", "a", "c", "t">>,
                      <<"i", "n", "t", "e", "r", "f", "a", "c", "e">>,
                      <<"h", "e", "r", "d", "a", "r">>>>],
      [component |-> <<"c", "o", "n", "f", "i", "g">>,
       keywords |-> <<<<"c", "o", "n", "f", "i", "g">>,
                      <<"c", "o", "n", "f", "i", "g", "u", "r", "a", "t", "i", "o", "n">>,
                      <<"y", "a", "m", "l">>,
                      <<"s", "e", "t", "t", "i", "n", "g", "s">>>>],
      [component |-> <<"f", "a", "c", "t", "o", "r", "y">>,
       keywords |-> <<<<"f", "a", "c", "t", "o", "r", "y">>,
                      <<"g", "e", "t", "_">>,
                      <<"c", "r", "e", "a", "t", "e">>,
                      <<"b", "u", "i", "l", "d">>>>]
    >>

\* important_patterns
important_patterns ==
    <<<<"c", "l", "a", "s", "s", " ">>,
      <<"d", "e", "f", " ">>,
      <<"i", "m", "p", "o", "r", "t", " ">>,
      <<"f", "r", "o", "m", " ">>>>

\* doc.metadata.get('source', default)
source_of(doc, default) ==
    IF "source" \in DOMAIN doc.metadata THEN doc.metadata.source ELSE default

\* a plausible slip: every word of the question counts
IsSignificant_Any(word) == Len(word) > 0

\* "if len(word) > 2": very short words are ignored
IsSignificant(word) == Len(word) > 2

\* a plausible slip: the size bonus is rounded up instead of floored
size_bonus_Ceiling(content_lower) == (Len(content_lower) + 999) \div 1000

\* the size bonus len(content_lower) // 1000
size_bonus(content_lower) == Len(content_lower) \div 1000

\* _calculate_relevance_score(question_lower, doc)
_calculate_relevance_score(question_lower, doc) ==
    LET content_lower == lower(doc.page_content)
        file_path == lower(source_of(doc, <<>>))
        words == split(question_lower)
        word_scores ==
            [i \in 1..Len(words) |->
                IF IsSignificant(words[i])
                THEN count(content_lower, words[i]) * 2 ELSE 0]
        component_scores ==
            [i \in 1..Len(keyword_mapping) |->
                IF /\ \E j \in 1..Len(keyword_mapping[i].keywords) :
                          contains(question_lower, keyword_mapping[i].keywords[j])
                   /\ contains(file_path, keyword_mapping[i].component)
                THEN 15 ELSE 0]
        pattern_scores ==
            [i \in 1..Len(important_patterns) |->
                count(content_lower, important_patterns[i])]
    IN  SumSeq(word_scores) + SumSeq(component_scores)
        + size_bonus(content_lower) + SumSeq(pattern_scores)

\* a plausible slip: the list is left in corpus order
sort_by_score_Unsorted(doc_scores) == doc_scores

\* a plausible slip: an unstable sort, equal scores come out reversed
RECURSIVE sort_by_score_Unstable(_)
sort_by_score_Unstable(doc_scores) ==
    IF doc_scores = <<>> THEN <<>>
    ELSE LET rest == sort_by_score_Unstable(
                         SubSeq(doc_scores, 1, Len(doc_scores) - 1))
             x == doc_scores[Len(doc_scores)]
             before == SelectSeq(rest, LAMBDA y : y.score > x.score)
             after == SelectSeq(rest, LAMBDA y : y.score <= x.score)
         IN  before \o <<x>> \o after

\* list.sort(key=score, reverse=True): stable, equal scores keep their order
RECURSIVE sort_by_score(_)
sort_by_score(doc_scores) ==
    IF doc_scores = <<>> THEN <<>>
    ELSE LET rest == sort_by_score(SubSeq(doc_scores, 1, Len(doc_scores) - 1))
             x == doc_scores[Len(doc_scores)]
             before == SelectSeq(rest, LAMBDA y : y.score >= x.score)
             after == SelectSeq(rest, LAMBDA y : y.score < x.score)
         IN  before \o <<x>> \o after

\* a plausible slip: the slice takes one element too many
slice_to_OffByOne(xs, n) == SubSeq(xs, 1, Min(n + 1, Len(xs)))

\* the slice xs[:n] of Python: a negative n counts from the end
slice_to(xs, n) ==
    IF n >= 0 THEN SubSeq(xs, 1, Min(n, Len(xs)))
    ELSE SubSeq(xs, 1, Len(xs) + n)

\* _get_preview(content, max_chars=150)
_get_preview(content) ==
    IF Len(content) <= 150 THEN content
    ELSE SubSeq(content, 1, 150) \o <<".", ".", ".">>

\* a plausible slip: a score of zero is let through
IsRelevant_NonNegative(score) == score >= 0

\* "if score > 0": only documents with some relevance are included
IsRelevant(score) == score > 0

\* find_relevant_context(question, max_docs): the context is the join of
\* context_parts with a blank line, kept here as its parts
find_relevant_context(docs, question, max_docs) ==
    LET question_lower == lower(question)
        doc_scores ==
            [i \in 1..Len(docs) |->
                [doc |-> docs[i],
                 score |-> _calculate_relevance_score(question_lower, docs[i]),
                 file_path |-> source_of(docs[i], <<"N", "/", "A">>)]]
        top_docs == slice_to(sort_by_score(doc_scores), max_docs)
        order ==
            SelectSeq([i \in 1..Len(top_docs) |-> i],
                      LAMBDA i : IsRelevant(top_docs[i].score))
    IN  IF docs = <<>>
        THEN [context_parts |-> <<>>, sources |-> <<>>]
        ELSE [context_parts |->
                 [n \in 1..Len(order) |->
                     [tag |-> order[n], file |-> top_docs[order[n]].file_path,
                      content |-> top_docs[order[n]].doc.page_content]],
              sources |->
                 [n \in 1..Len(order) |->
                     [index |-> order[n], file |-> top_docs[order[n]].file_path,
                      score |-> top_docs[order[n]].score,
                      lines |-> count(top_docs[order[n]].doc.page_content, <<"\n">>) + 1,
                      preview |-> _get_preview(top_docs[order[n]].doc.page_content)]]]

(***************************************************************************)
(* Inputs of the search engine.                                             *)
(***************************************************************************)
LoaderDoc ==
    [page_content |->
        <<"c", "l", "a", "s", "s", " ", "P", "y", "L", "o", "a", "d", "e",
          "r", ":", "\n", " ", " ", " ", " ", "d", "e", "f", " ", "l", "o",
          "a", "d", "(", "s", "e", "l", "f", ")", ":", "\n", " ", " ", " ",
          " ", " ", " ", " ", " ", "p", "a", "s", "s">>,
     metadata |-> [source |->
        <<"s", "r", "c", "/", "l", "o", "a", "d", "e", "r", "s", "/", "p",
          "y", "_", "l", "o", "a", "d", "e", "r", ".", "p", "y">>]]

LLMDoc ==
    [page_content |->
        <<"f", "r", "o", "m", " ", "a", "b", "c", " ", "i", "m", "p", "o",
          "r", "t", " ", "A", "B", "C", "\n", "c", "l", "a", "s", "s", " ",
          "B", "a", "s", "e", "L", "L", "M", "(", "A", "B", "C", ")", ":",
          "\n", " ", " ", " ", " ", "d", "e", "f", " ", "a", "s", "k", "(",
          "s", "e", "l", "f", ")", ":", " ", "p", "a", "s", "s">>,
     metadata |-> [source |->
        <<"s", "r", "c", "/", "l", "l", "m", "s", "/", "b", "a", "s", "e",
          ".", "p", "y">>]]

NotesDoc ==
    [page_content |->
        <<"h", "e", "l", "l", "o", " ", "w", "o", "r", "l", "d">>,
     metadata |-> [source |->
        <<"n", "o", "t", "e", "s", ".", "t", "x", "t">>]]

EmptyDoc ==
    [page_content |->
        <<>>,
     metadata |-> [source |->
        <<"e", "m", "p", "t", "y", ".", "p", "y">>]]

\* a document whose metadata holds no source
UnnamedDoc ==
    [page_content |-> <<"d", "e", "f", " ", "f", "(", ")", ":", " ", "p", "a", "s", "s">>,
     metadata |-> EmptyDict]

\* a file of a thousand characters: a definition and a long comment
BigDoc ==
    [page_content |->
        <<"d", "e", "f", " ", "f", "(", ")", ":", " ", "p", "a", "s", "s",
          "\n", "#", " ">> \o [i \in 1..984 |-> "x"],
     metadata |-> [source |->
        <<"s", "r", "c", "/", "c", "o", "r", "e", "/", "E", "n", "g", "i",
          "n", "e", ".", "p", "y">>]]

\* the document lists a SimpleSearchEngine is constructed with
Corpora ==
    { <<>>,
      <<BigDoc, UnnamedDoc, EmptyDoc>>,
      <<EmptyDoc>>,
      <<NotesDoc, EmptyDoc>>,
      <<EmptyDoc, LoaderDoc, NotesDoc>>,
      <<NotesDoc, LLMDoc, UnnamedDoc, LoaderDoc>>,
      <<LoaderDoc, LLMDoc, EmptyDoc, UnnamedDoc, NotesDoc>> }

\* the questions asked
Questions ==
    { <<>>,
      <<"a", " ", "b">>,
      <<"H", "o", "w", " ", "d", "o", "e", "s", " ", "t", "h", "e", " ",
        "l", "o", "a", "d", "e", "r", " ", "w", "o", "r", "k", "?">>,
      <<"H", "E", "L", "L", "O", " ", "w", "o", "r", "l", "d">>,
      <<"a", "s", "k", " ", "t", "h", "e", " ", "L", "L", "M", " ", "m",
        "o", "d", "e", "l">>,
      <<"d", "e", "f", " ", "l", "o", "a", "d">>,
      <<"d", "e", "f", " ", "s", "e", "t", "u", "p">> }

(***************************************************************************)
(* The engine as a state machine: one action per public method.            *)
(***************************************************************************)
\* a store whose persist directory already holds data is loaded with it
ExistingStores == {None, [collection |-> split_documents(<<SmallDoc>>)]}

Assign(self) ==
    /\ is_indexed' = self.is_indexed
    /\ retriever' = self.retriever
    /\ retriever_config' = self.retriever_config
    /\ vectorstore' = self.vectorstore

\* no call on the engine yet
NoCall ==
    [op |-> "__init__", args |-> <<>>, result |-> [status |-> "returned"],
     calls |-> NoCalls, used |-> None]

\* no search yet
NotFound == [op |-> "__init__"]

\* no response processed yet
NoReview == [op |-> "__init__"]

\* no OllamaLLM or CodeAssistant constructed, no capacity executed
Idle == [op |-> "none"]

\* the applications beside the component under study are not started
NoApps == ollama = Idle /\ assistant = Idle /\ capacity = Idle

\* RAGEngine(loader, vector_store, llm, retriever_config=arg)
Init ==
    /\ is_indexed = FALSE
    /\ retriever = None
    /\ retriever_config \in {InitRetrieverConfig(arg) : arg \in InitConfigs}
    /\ vectorstore \in ExistingStores
    /\ last = NoCall
    /\ documents = <<>>
    /\ found = NotFound
    /\ review = NoReview
    /\ NoApps

LoaderOutcomes ==
    {[raised |-> FALSE, docs |-> d, error |-> <<>>] : d \in Loads}
    \cup {[raised |-> TRUE, docs |-> <<>>, error |-> <<e>>] : e \in LoaderErrors}

SetupPipeline ==
    \E load \in LoaderOutcomes,
       add_outcome \in {"ok", "raise_add", "raise_persist"},
       store_err \in StoreErrors :
        LET r == setup_pipeline(Self, load, add_outcome, store_err)
        IN  /\ add_outcome # "ok" => r.calls.add_documents = 1
            /\ r.self.vectorstore # None =>
                   Len(r.self.vectorstore.collection) <= MaxStore
            /\ Assign(r.self)
            /\ last' = [op |-> "setup_pipeline",
                        args |-> [load |-> load, add_outcome |-> add_outcome],
                        result |-> r.result, calls |-> r.calls, used |-> None]
            /\ UNCHANGED <<searchVars, reviewVars, appVars>>

Ask ==
    \E include_sources \in BOOLEAN, kw \in Kwargs,
       invoke_raised \in BOOLEAN, llm_raised \in BOOLEAN,
       n \in 0..MaxStore :
        LET invoke == IF invoke_raised
                      THEN [raised |-> TRUE, n |-> 0,
                            error |-> CHOOSE e \in RetrieverErrors : TRUE]
                      ELSE [raised |-> FALSE, n |-> n, error |-> ""]
            llm == IF llm_raised
                   THEN [raised |-> TRUE, answer |-> "",
                         error |-> CHOOSE e \in LLMErrors : TRUE]
                   ELSE [raised |-> FALSE, answer |-> "answer", error |-> ""]
            r == ask(Self, include_sources, kw, invoke, llm)
        IN  /\ IF r.calls.invoke = 1 /\ ~invoke_raised
               THEN n \in RetrievedCounts(r.used, vectorstore)
               ELSE n = 0
            /\ invoke_raised => r.calls.invoke = 1
            /\ llm_raised => r.calls.llm_ask = 1
            /\ Assign(r.self)
            /\ last' = [op |-> "ask",
                        args |-> [kw |-> kw, include_sources |-> include_sources,
                                  invoke_raised |-> invoke_raised,
                                  llm_raised |-> llm_raised],
                        result |-> r.result, calls |-> r.calls, used |-> r.used]
            /\ UNCHANGED <<searchVars, reviewVars, appVars>>

UpdateRetrieverConfig ==
    \E kw \in Kwargs :
        LET r == update_retriever_config(Self, kw)
        IN  /\ Assign(r.self)
            /\ last' = [op |-> "update_retriever_config", args |-> [kw |-> kw],
                        result |-> r.result, calls |-> r.calls, used |-> None]
            /\ UNCHANGED <<searchVars, reviewVars, appVars>>

ClearIndex ==
    \E delete_ok \in BOOLEAN, store_err \in StoreErrors :
        LET r == clear_index(Self, delete_ok, store_err)
        IN  /\ ~delete_ok => r.result.error # <<>>
            /\ Assign(r.self)
            /\ last' = [op |-> "clear_index", args |-> [delete_ok |-> delete_ok],
                        result |-> r.result, calls |-> r.calls, used |-> None]
            /\ UNCHANGED <<searchVars, reviewVars, appVars>>

Next == SetupPipeline \/ Ask \/ UpdateRetrieverConfig \/ ClearIndex

Spec == Init /\ [][Next]_vars

(***************************************************************************)
(* The search engine: constructed over a document list, then queried.      *)
(***************************************************************************)
\* the largest max_docs asked for
MaxMaxDocs == 3

\* SimpleSearchEngine(documents), with no engine beside it
InitSearch ==
    /\ documents \in Corpora
    /\ found = NotFound
    /\ is_indexed = FALSE
    /\ retriever = None
    /\ retriever_config = DefaultRetrieverConfig
    /\ vectorstore = None
    /\ last = NoCall
    /\ review = NoReview
    /\ NoApps

FindRelevantContext ==
    \E question \in Questions, max_docs \in (-1)..MaxMaxDocs :
        LET r == find_relevant_context(documents, question, max_docs)
        IN  /\ found' = [op |-> "find_relevant_context", question |-> question,
                         max_docs |-> max_docs,
                         context_parts |-> r.context_parts,
                         sources |-> r.sources]
            /\ UNCHANGED <<documents, engineVars, reviewVars, appVars>>

NextSearch == FindRelevantContext

SpecSearch == InitSearch /\ [][NextSearch]_vars


(***************************************************************************)
(* CodeReviewCapacity: the parser of the generator's review text.          *)
(*                                                                         *)
(* The regular expressions are modelled by what re.search and re.finditer  *)
(* compute for them: leftmost match, greedy and non-greedy repetition.     *)
(***************************************************************************)
MinOf(S) == CHOOSE x \in S : \A y \in S : x <= y
MaxOf(S) == CHOOSE x \in S : \A y \in S : x >= y

\* \d
Digits == {"0", "1", "2", "3", "4", "5", "6", "7", "8", "9"}

DigitValue ==
    ("0" :> 0) @@ ("1" :> 1) @@ ("2" :> 2) @@ ("3" :> 3) @@ ("4" :> 4) @@
    ("5" :> 5) @@ ("6" :> 6) @@ ("7" :> 7) @@ ("8" :> 8) @@ ("9" :> 9)

\* [A-Z]: without re.IGNORECASE, the unaccented capitals only
UpperAZ ==
    {"A", "B", "C", "D", "E", "F", "G", "H", "I", "J", "K", "L", "M", "N",
     "O", "P", "Q", "R", "S", "T", "U", "V", "W", "X", "Y", "Z"}

\* \w: letters (accented ones too), digits and the underscore
WordChars ==
    DOMAIN UpperToLower \cup {UpperToLower[c] : c \in DOMAIN UpperToLower}
        \cup Digits \cup {"_"}

\* s.strip()
strip(s) ==
    LET keep == {i \in 1..Len(s) : s[i] \notin Whitespace}
    IN  IF keep = {} THEN <<>> ELSE SubSeq(s, MinOf(keep), MaxOf(keep))

\* ' '.join(words)
RECURSIVE join(_)
join(words) ==
    IF words = <<>> THEN <<>>
    ELSE IF Len(words) = 1 THEN words[1]
    ELSE words[1] \o <<" ">> \o join(Tail(words))

\* int(digits)
RECURSIVE int(_)
int(digits) ==
    IF digits = <<>> THEN 0
    ELSE 10 * int(SubSeq(digits, 1, Len(digits) - 1))
             + DigitValue[digits[Len(digits)]]

\* s.split('\n'): the pieces between newlines, empty ones included
RECURSIVE split_lines(_)
split_lines(s) ==
    LET breaks == {i \in 1..Len(s) : s[i] = "\n"}
    IN  IF breaks = {} THEN <<s>>
        ELSE <<SubSeq(s, 1, MinOf(breaks) - 1)>>
                 \o split_lines(SubSeq(s, MinOf(breaks) + 1, Len(s)))

\* where the longest run of characters of chars that starts at i ends: the
\* index of the first character after it
RunOf(s, i, chars) ==
    LET stops == {j \in i..Len(s) : s[j] \notin chars}
    IN  IF stops = {} THEN Len(s) + 1 ELSE MinOf(stops)

\* the same for the characters that are not in chars
RunOfNot(s, i, chars) ==
    LET stops == {j \in i..Len(s) : s[j] \in chars}
    IN  IF stops = {} THEN Len(s) + 1 ELSE MinOf(stops)

\* the section headers and the words that end a section body, lowercased
\* as re.IGNORECASE compares them
PROBLEMAS_ENCONTRADOS ==
    <<"p", "r", "o", "b", "l", "e", "m", "a", "s", " ", "e", "n", "c", "o",
      "n", "t", "r", "a", "d", "o", "s", ":">>
SUGESTOES_DE_MELHORIA ==
    <<"s", "u", "g", "e", "s", "t", "õ", "e", "s", " ", "d", "e", " ", "m",
      "e", "l", "h", "o", "r", "i", "a", ":">>
PONTOS_POSITIVOS ==
    <<"p", "o", "n", "t", "o", "s", " ", "p", "o", "s", "i", "t", "i", "v",
      "o", "s", ":">>
RESUMO_HEADER ==
    <<"r", "e", "s", "u", "m", "o", ":">>
SUGESTOES ==
    <<"s", "u", "g", "e", "s", "t", "õ", "e", "s">>
PONTOS ==
    <<"p", "o", "n", "t", "o", "s">>
RESUMO ==
    <<"r", "e", "s", "u", "m", "o">>

\* re.search(r"HEADER(.+?)(?:T1|T2|$)", text, re.DOTALL | re.IGNORECASE)
\* .group(1): the shortest non-empty text after the first header that is
\* followed by a terminator or ends the text ($ also matches before a final
\* newline); None when there is no match
section(text, header, terminators) ==
    LET low == lower(text)
        starts == {i \in 1..Len(text) : OccursAt(low, header, i)}
    IN  IF starts = {} THEN None
        ELSE LET from == MinOf(starts) + Len(header)
                 ends == {e \in from..Len(text) :
                             \/ e = Len(text)
                             \/ e = Len(text) - 1 /\ text[Len(text)] = "\n"
                             \/ \E t \in terminators : OccursAt(low, t, e + 1)}
             IN  IF ends = {} THEN None
                 ELSE [group1 |-> SubSeq(text, from, MinOf(ends))]

\* the three patterns of a bullet line:
\*   - \[([^\]]+)\] ([^(\n]+)(?:\(linha (\d+)\))?
\*   - ([A-Z][\w\s]+): ([^(\n]+)(?:\(linha (\d+)\))?
\*   \* ([A-Z][\w\s]+): ([^(\n]+)(?:\(L(\d+)\))?
patterns ==
    << [marker |-> "-", bracketed |-> TRUE,
        line_open |-> <<"(", "l", "i", "n", "h", "a", " ">>],
       [marker |-> "-", bracketed |-> FALSE,
        line_open |-> <<"(", "l", "i", "n", "h", "a", " ">>],
       [marker |-> "*", bracketed |-> FALSE,
        line_open |-> <<"(", "L">>] >>

\* the tail of a pattern from position d0 on: ([^(\n]+) taken greedily, then
\* the optional line-number group; category is group 1, matched before
description_at(s, pattern, start, category, d0) ==
    LET d1 == RunOfNot(s, d0, {"(", "\n"})
        n0 == d1 + Len(pattern.line_open)
        n1 == RunOf(s, n0, Digits)
        has_line == /\ OccursAt(s, pattern.line_open, d1)
                    /\ n1 > n0
                    /\ OccursAt(s, <<")">>, n1)
    IN  IF d1 <= d0 THEN None
        ELSE [start |-> start,
              end |-> IF has_line THEN n1 + 1 ELSE d1,
              group1 |-> category,
              group2 |-> SubSeq(s, d0, d1 - 1),
              has_group3 |-> has_line,
              group3 |-> IF has_line THEN SubSeq(s, n0, n1 - 1) ELSE <<>>]

\* the match of pattern that starts at position i of s, or None
match_at(s, pattern, i) ==
    IF pattern.bracketed
    THEN LET c0 == i + 3
             c1 == RunOfNot(s, c0, {"]"})
         IN  IF /\ OccursAt(s, <<"-", " ", "[">>, i)
                /\ c1 > c0
                /\ OccursAt(s, <<"]", " ">>, c1)
             THEN description_at(s, pattern, i, SubSeq(s, c0, c1 - 1), c1 + 2)
             ELSE None
    ELSE LET c0 == i + 2
             c1 == RunOf(s, c0 + 1, WordChars \cup Whitespace)
         IN  IF /\ OccursAt(s, <<pattern.marker, " ">>, i)
                /\ c0 <= Len(s)
                /\ s[c0] \in UpperAZ
                /\ c1 > c0 + 1
                /\ OccursAt(s, <<":", " ">>, c1)
             THEN description_at(s, pattern, i, SubSeq(s, c0, c1 - 1), c1 + 2)
             ELSE None

\* re.finditer(pattern, s): the matches from position pos on, left to right,
\* each search resuming where the previous match ended
RECURSIVE finditer(_, _, _)
finditer(s, pattern, pos) ==
    LET hits == {i \in pos..Len(s) : match_at(s, pattern, i) # None}
    IN  IF hits = {} THEN <<>>
        ELSE LET m == match_at(s, pattern, MinOf(hits))
             IN  <<m>> \o finditer(s, pattern, m.end)

\* "for pattern in patterns: for match in re.finditer(pattern, text)"
all_matches(s) ==
    finditer(s, patterns[1], 1) \o finditer(s, patterns[2], 1)
        \o finditer(s, patterns[3], 1)

\* the words that make an issue severe, and a suggestion of high impact
issue_words ==
    { <<"c", "r", "í", "t", "i", "c", "o">>,
      <<"s", "e", "g", "u", "r", "a", "n", "ç", "a">>,
      <<"v", "u", "l", "n", "e", "r", "á", "v", "e", "l">>,
      <<"e", "v", "a", "l">>,
      <<"s", "q", "l">>,
      <<"s", "e", "n", "h", "a">>,
      <<"p", "a", "s", "s", "w", "o", "r", "d">>,
      <<"t", "o", "k", "e", "n">>,
      <<"s", "e", "c", "r", "e", "t">> }

suggestion_words ==
    { <<"p", "e", "r", "f", "o", "r", "m", "a", "n", "c", "e">>,
      <<"s", "e", "g", "u", "r", "a", "n", "ç", "a">>,
      <<"a", "r", "q", "u", "i", "t", "e", "t", "u", "r", "a">>,
      <<"c", "r", "í", "t", "i", "c", "o">> }

\* a plausible slip: the description is compared as written
level_CaseSensitive(description, words) ==
    IF \E word \in words : contains(description, word)
    THEN "high" ELSE "medium"

\* "high" if any(word in description.lower() for word in words) else "medium"
level(description, words) ==
    IF \E word \in words : contains(lower(description), word)
    THEN "high" ELSE "medium"

\* int(digits) raises ValueError for more digits than the interpreter's
\* limit on integer string conversion (4300 by default)
int_raises(digits) == Len(digits) > 4300

\* some match of the section text makes int(match.group(3)) raise
raising(section_text) ==
    \E n \in 1..Len(all_matches(section_text)) :
        int_raises(all_matches(section_text)[n].group3)

\* "int(match.group(3)) if match.group(3) else None"; an Optional[int] is
\* None or the record that holds the integer
line_num(match) ==
    IF match.has_group3 THEN [value |-> int(match.group3)] ELSE None

\* the loop of _parse_issues over the patterns and their matches
issues_in(problems_text) ==
    LET found_matches == all_matches(problems_text)
    IN  [n \in 1..Len(found_matches) |->
            [category |-> strip(found_matches[n].group1),
             description |-> strip(found_matches[n].group2),
             line_number |-> line_num(found_matches[n]),
             severity |-> level(strip(found_matches[n].group2), issue_words)]]

\* _parse_issues(text)
_parse_issues(text) ==
    LET problems_section ==
            section(text, PROBLEMAS_ENCONTRADOS, {SUGESTOES, PONTOS, RESUMO})
    IN  IF problems_section = None THEN <<>>
        ELSE issues_in(problems_section.group1)

\* the loop of _parse_suggestions over the patterns and their matches
suggestions_in(suggestions_text) ==
    LET found_matches == all_matches(suggestions_text)
    IN  [n \in 1..Len(found_matches) |->
            [category |-> strip(found_matches[n].group1),
             description |-> strip(found_matches[n].group2),
             line_number |-> line_num(found_matches[n]),
             impact |-> level(strip(found_matches[n].group2),
                              suggestion_words)]]

\* _parse_suggestions(text)
_parse_suggestions(text) ==
    LET suggestions_section ==
            section(text, SUGESTOES_DE_MELHORIA, {PONTOS, RESUMO})
    IN  IF suggestions_section = None THEN <<>>
        ELSE suggestions_in(suggestions_section.group1)

\* a plausible slip: only the dash is taken for a marker
BulletMarkers_DashOnly == {"-"}

\* the bullet markers of a positive point; the code also accepts the bullet
\* glyph U+2022, which no text of this model holds
BulletMarkers == {"-", "*"}

\* re.sub(r'^[-*]\s*(?:\[[^\]]+\]\s*)?', '', line): the line without its
\* marker and without a leading bracketed category
strip_marker(line) ==
    LET a == RunOf(line, 2, Whitespace)
        b == RunOfNot(line, a + 1, {"]"})
        bracketed == /\ OccursAt(line, <<"[">>, a)
                     /\ b > a + 1
                     /\ OccursAt(line, <<"]">>, b)
        rest == IF bracketed THEN RunOf(line, b + 1, Whitespace) ELSE a
    IN  IF line # <<>> /\ line[1] \in BulletMarkers
        THEN SubSeq(line, rest, Len(line))
        ELSE line

\* _parse_positives(text)
_parse_positives(text) ==
    LET positives_section == section(text, PONTOS_POSITIVOS, {RESUMO})
    IN  IF positives_section = None THEN <<>>
        ELSE LET lines == split_lines(positives_section.group1)
                 stripped == [n \in 1..Len(lines) |-> strip(lines[n])]
                 cleaned == [n \in 1..Len(lines) |->
                                IF /\ stripped[n] # <<>>
                                   /\ stripped[n][1] \in BulletMarkers
                                THEN strip(strip_marker(stripped[n]))
                                ELSE <<>>]
             IN  SelectSeq(cleaned, LAMBDA positive : positive # <<>>)

\* a plausible slip: no placeholder, the summary is left empty
DefaultSummary_Empty == <<>>

\* "Análise de código concluída."
DefaultSummary ==
    <<"A", "n", "á", "l", "i", "s", "e", " ", "d", "e", " ", "c", "ó", "d",
      "i", "g", "o", " ", "c", "o", "n", "c", "l", "u", "í", "d", "a", ".">>

\* _parse_summary(text)
_parse_summary(text) ==
    LET summary_section == section(text, RESUMO_HEADER, {})
    IN  IF summary_section = None THEN DefaultSummary
        ELSE join(split(strip(summary_section.group1)))

\* str(e) of the ValueError of int()
IntLimitError == "Exceeds the limit (4300 digits) for integer string conversion"

\* a section parser raises: only int() can, in the two bullet loops
parser_raises(response) ==
    LET problems_section ==
            section(response, PROBLEMAS_ENCONTRADOS, {SUGESTOES, PONTOS, RESUMO})
        suggestions_section ==
            section(response, SUGESTOES_DE_MELHORIA, {PONTOS, RESUMO})
    IN  \/ problems_section # None /\ raising(problems_section.group1)
        \/ suggestions_section # None /\ raising(suggestions_section.group1)

\* a plausible slip: the failure is reported without its message
ProcessError_NoMessage(e) ==
    [success |-> FALSE, data |-> EmptyDict, errors |-> <<>>]

\* the except branch of process_response
ProcessError(e) ==
    [success |-> FALSE, data |-> EmptyDict,
     errors |-> << <<"Erro ao processar resposta: ", e>> >>]

\* process_response(response)
process_response(response) ==
    IF parser_raises(response) THEN ProcessError(IntLimitError)
    ELSE [success |-> TRUE,
          review |-> [issues |-> _parse_issues(response),
                      suggestions |-> _parse_suggestions(response),
                      positives |-> _parse_positives(response),
                      summary |-> _parse_summary(response)]]

(***************************************************************************)
(* The review texts: a preface, then the four sections, each present in    *)
(* one of a few forms or absent, in the canonical order or with the        *)
(* suggestions ahead of the problems.                                      *)
(***************************************************************************)
\* text ahead of every section, with a bullet line in it
\*   Revisão do código:
\*   - [Bug] Fora de seção (linha 1)
Preface ==
    <<"R", "e", "v", "i", "s", "ã", "o", " ", "d", "o", " ", "c", "ó", "d",
      "i", "g", "o", ":", "\n", "-", " ", "[", "B", "u", "g", "]", " ", "F",
      "o", "r", "a", " ", "d", "e", " ", "s", "e", "ç", "ã", "o", " ", "(",
      "l", "i", "n", "h", "a", " ", "1", ")", "\n">>

\* one bullet line of each shape, each with a line number
\*   PROBLEMAS ENCONTRADOS:
\*   - [Segurança] Senha em texto plano (linha 11)
\*   - Performance: Loop lento (linha 20)
\*   * Estilo: Nome ruim (L3)
ProblemsThreeShapes ==
    <<"P", "R", "O", "B", "L", "E", "M", "A", "S", " ", "E", "N", "C", "O",
      "N", "T", "R", "A", "D", "O", "S", ":", "\n", "-", " ", "[", "S", "e",
      "g", "u", "r", "a", "n", "ç", "a", "]", " ", "S", "e", "n", "h", "a",
      " ", "e", "m", " ", "t", "e", "x", "t", "o", " ", "p", "l", "a", "n",
      "o", " ", "(", "l", "i", "n", "h", "a", " ", "1", "1", ")", "\n", "-",
      " ", "P", "e", "r", "f", "o", "r", "m", "a", "n", "c", "e", ":", " ",
      "L", "o", "o", "p", " ", "l", "e", "n", "t", "o", " ", "(", "l", "i",
      "n", "h", "a", " ", "2", "0", ")", "\n", "*", " ", "E", "s", "t", "i",
      "l", "o", ":", " ", "N", "o", "m", "e", " ", "r", "u", "i", "m", " ",
      "(", "L", "3", ")", "\n">>

\* the starred shape ahead of the bracketed one, the latter without a line number
\*   PROBLEMAS ENCONTRADOS:
\*   * Estilo: Nome ruim (L3)
\*   - [Bug] Divisão por zero
ProblemsMixed ==
    <<"P", "R", "O", "B", "L", "E", "M", "A", "S", " ", "E", "N", "C", "O",
      "N", "T", "R", "A", "D", "O", "S", ":", "\n", "*", " ", "E", "s", "t",
      "i", "l", "o", ":", " ", "N", "o", "m", "e", " ", "r", "u", "i", "m",
      " ", "(", "L", "3", ")", "\n", "-", " ", "[", "B", "u", "g", "]", " ",
      "D", "i", "v", "i", "s", "ã", "o", " ", "p", "o", "r", " ", "z", "e",
      "r", "o", "\n">>

\* a description that holds a parenthesis
\*   PROBLEMAS ENCONTRADOS:
\*   - [Segurança] Uso de eval() inseguro (linha 5)
ProblemsParenthesis ==
    <<"P", "R", "O", "B", "L", "E", "M", "A", "S", " ", "E", "N", "C", "O",
      "N", "T", "R", "A", "D", "O", "S", ":", "\n", "-", " ", "[", "S", "e",
      "g", "u", "r", "a", "n", "ç", "a", "]", " ", "U", "s", "o", " ", "d",
      "e", " ", "e", "v", "a", "l", "(", ")", " ", "i", "n", "s", "e", "g",
      "u", "r", "o", " ", "(", "l", "i", "n", "h", "a", " ", "5", ")",
      "\n">>

\* a header in mixed case and a description that holds the word "resumo"
\*   Problemas Encontrados:
\*   - [Docs] Falta resumo na docstring (linha 2)
\*   - [Bug] Erro de SQL (linha 9)
ProblemsWordResumo ==
    <<"P", "r", "o", "b", "l", "e", "m", "a", "s", " ", "E", "n", "c", "o",
      "n", "t", "r", "a", "d", "o", "s", ":", "\n", "-", " ", "[", "D", "o",
      "c", "s", "]", " ", "F", "a", "l", "t", "a", " ", "r", "e", "s", "u",
      "m", "o", " ", "n", "a", " ", "d", "o", "c", "s", "t", "r", "i", "n",
      "g", " ", "(", "l", "i", "n", "h", "a", " ", "2", ")", "\n", "-", " ",
      "[", "B", "u", "g", "]", " ", "E", "r", "r", "o", " ", "d", "e", " ",
      "S", "Q", "L", " ", "(", "l", "i", "n", "h", "a", " ", "9", ")",
      "\n">>

\* bracketed suggestions, one with a watchlist word as its category
\*   SUGESTÕES DE MELHORIA:
\*   - [Performance] Use cache (linha 20)
\*   - [Testes] Adicione testes
SuggestionsBracketed ==
    <<"S", "U", "G", "E", "S", "T", "Õ", "E", "S", " ", "D", "E", " ", "M",
      "E", "L", "H", "O", "R", "I", "A", ":", "\n", "-", " ", "[", "P", "e",
      "r", "f", "o", "r", "m", "a", "n", "c", "e", "]", " ", "U", "s", "e",
      " ", "c", "a", "c", "h", "e", " ", "(", "l", "i", "n", "h", "a", " ",
      "2", "0", ")", "\n", "-", " ", "[", "T", "e", "s", "t", "e", "s", "]",
      " ", "A", "d", "i", "c", "i", "o", "n", "e", " ", "t", "e", "s", "t",
      "e", "s", "\n">>

\* a watchlist word in capitals, and a word of the issue watchlist
\*   SUGESTÕES DE MELHORIA:
\*   * Camadas: Separe a ARQUITETURA (L8)
\*   - Docs: Explique o token
SuggestionsMixed ==
    <<"S", "U", "G", "E", "S", "T", "Õ", "E", "S", " ", "D", "E", " ", "M",
      "E", "L", "H", "O", "R", "I", "A", ":", "\n", "*", " ", "C", "a", "m",
      "a", "d", "a", "s", ":", " ", "S", "e", "p", "a", "r", "e", " ", "a",
      " ", "A", "R", "Q", "U", "I", "T", "E", "T", "U", "R", "A", " ", "(",
      "L", "8", ")", "\n", "-", " ", "D", "o", "c", "s", ":", " ", "E", "x",
      "p", "l", "i", "q", "u", "e", " ", "o", " ", "t", "o", "k", "e", "n",
      "\n">>

\* bullet lines, a line without marker and a bare marker
\*   PONTOS POSITIVOS:
\*   - Estrutura bem organizada
\*   * [Nomes] Nomes descritivos
\*   sem marcador
\*   -
Positives ==
    <<"P", "O", "N", "T", "O", "S", " ", "P", "O", "S", "I", "T", "I", "V",
      "O", "S", ":", "\n", "-", " ", "E", "s", "t", "r", "u", "t", "u", "r",
      "a", " ", "b", "e", "m", " ", "o", "r", "g", "a", "n", "i", "z", "a",
      "d", "a", "\n", "*", " ", "[", "N", "o", "m", "e", "s", "]", " ", "N",
      "o", "m", "e", "s", " ", "d", "e", "s", "c", "r", "i", "t", "i", "v",
      "o", "s", "\n", "s", "e", "m", " ", "m", "a", "r", "c", "a", "d", "o",
      "r", "\n", "-", "\n">>

\* a summary over several lines
\*   RESUMO: Bom   código.
\*   
\*   Tudo certo.
SummaryText ==
    <<"R", "E", "S", "U", "M", "O", ":", " ", "B", "o", "m", " ", " ", " ",
      "c", "ó", "d", "i", "g", "o", ".", "\n", "\n", "T", "u", "d", "o",
      " ", "c", "e", "r", "t", "o", ".", "\n">>

\* the header at the very end of the text
\*   RESUMO:
SummaryHeaderOnly ==
    <<"R", "E", "S", "U", "M", "O", ":">>

\* a summary body of whitespace only
\*   RESUMO: 
SummaryBlank ==
    <<"R", "E", "S", "U", "M", "O", ":", " ", "\n">>


\* a second bullet inside a line, and a category that runs over a newline
\*   PROBLEMAS ENCONTRADOS:
\*   - [Estilo] Nome ruim - Use: snake_case
\*   - Nota
\*   Geral: Revise tudo
ProblemsMidLine ==
    <<"P", "R", "O", "B", "L", "E", "M", "A", "S", " ", "E", "N", "C", "O",
      "N", "T", "R", "A", "D", "O", "S", ":", "\n", "-", " ", "[", "E", "s",
      "t", "i", "l", "o", "]", " ", "N", "o", "m", "e", " ", "r", "u", "i",
      "m", " ", "-", " ", "U", "s", "e", ":", " ", "s", "n", "a", "k", "e",
      "_", "c", "a", "s", "e", "\n", "-", " ", "N", "o", "t", "a", "\n",
      "G", "e", "r", "a", "l", ":", " ", "R", "e", "v", "i", "s", "e", " ",
      "t", "u", "d", "o", "\n">>

\* a bullet line whose line number has more digits than int() converts
\*   PROBLEMAS ENCONTRADOS:
\*   - [Bug] Erro (linha 999...9)     (4301 digits)
HugeLineNumber ==
    <<"P", "R", "O", "B", "L", "E", "M", "A", "S", " ", "E", "N", "C", "O",
      "N", "T", "R", "A", "D", "O", "S", ":", "\n", "-", " ", "[", "B", "u",
      "g", "]", " ", "E", "r", "r", "o", " ", "(", "l", "i", "n", "h", "a",
      " ">>
        \o [i \in 1..4301 |-> "9"] \o <<")", "\n">>

Prefaces == {<<>>, Preface}
ProblemBlocks ==
    {<<>>, ProblemsThreeShapes, ProblemsMixed, ProblemsParenthesis,
     ProblemsWordResumo, ProblemsMidLine}
SuggestionBlocks == {<<>>, SuggestionsBracketed, SuggestionsMixed}
PositiveBlocks == {<<>>, Positives}
SummaryBlocks == {<<>>, SummaryText, SummaryHeaderOnly, SummaryBlank}

\* the texts the generator answers with
Responses ==
    {pre \o p \o s \o q \o r :
        pre \in Prefaces, p \in ProblemBlocks, s \in SuggestionBlocks,
        q \in PositiveBlocks, r \in SummaryBlocks}
    \cup
    {pre \o s \o p \o q \o r :
        pre \in Prefaces, p \in ProblemBlocks, s \in SuggestionBlocks,
        q \in PositiveBlocks, r \in SummaryBlocks}
    \cup
    {HugeLineNumber, HugeLineNumber \o SummaryText}

(***************************************************************************)
(* The parser as a state machine: the capacity keeps no state between two  *)
(* responses, so a behaviour is one response, received and then processed. *)
(***************************************************************************)
InitReview ==
    /\ review \in {[op |-> "__init__", response |-> response] :
                      response \in Responses}
    /\ documents = <<>>
    /\ found = NotFound
    /\ is_indexed = FALSE
    /\ retriever = None
    /\ retriever_config = DefaultRetrieverConfig
    /\ vectorstore = None
    /\ last = NoCall
    /\ NoApps

ProcessResponse ==
    /\ review.op = "__init__"
    /\ review' = [op |-> "process_response", response |-> review.response,
                  result |-> process_response(review.response)]
    /\ UNCHANGED <<engineVars, searchVars, appVars>>

NextReview == ProcessResponse

SpecReview == InitReview /\ [][NextReview]_vars

(***************************************************************************)
(* OllamaLLM: a client bound to one model of a local Ollama server.        *)
(* self is [model_name, llm]; llm is the LangChain client, None before it  *)
(* is built; local is the list of models the server holds.                 *)
(***************************************************************************)
ModelNames ==
    { <<"l", "l", "a", "m", "a", "3", ".", "2", ":", "1", "b">>,
      <<"g", "e", "m", "m", "a", ":", "2", "b">>,
      <<"u", "n", "a", "v", "a", "i", "l", "a", "b", "l", "e", "_", "m",
        "o", "d", "e", "l">> }

\* what ollama.pull raises with when a model cannot be downloaded
PullErrors ==
    { <<"D", "o", "w", "n", "l", "o", "a", "d", " ", "f", "a", "i", "l",
        "e", "d">>,
      <<"p", "u", "l", "l", " ", "m", "o", "d", "e", "l", " ", "m", "a",
        "n", "i", "f", "e", "s", "t", ":", " ", "f", "i", "l", "e", " ",
        "n", "o", "t", " ", "f", "o", "u", "n", "d">> }

\* what ollama.list raises with
ListErrors ==
    { <<"C", "o", "n", "n", "e", "c", "t", "i", "o", "n", " ", "r", "e",
        "f", "u", "s", "e", "d">>,
      <<"4", "0", "4", " ", "p", "a", "g", "e", " ", "n", "o", "t", " ",
        "f", "o", "u", "n", "d">> }

\* an external call's outcome: it returns, or it raises with a text
Outcomes(errors) ==
    {[raised |-> FALSE, error |-> <<>>]}
    \cup {[raised |-> TRUE, error |-> e] : e \in errors}

\* ", ".join(model_names)
RECURSIVE comma_join(_)
comma_join(names) ==
    IF names = <<>> THEN <<>>
    ELSE IF Len(names) = 1 THEN names[1]
    ELSE names[1] \o <<",", " ">> \o comma_join(Tail(names))

\* the text of the ValueError raised when the download fails
PullFailedMessage(model_name, model_names, e) ==
    <<"N", "ã", "o", " ", "f", "o", "i", " ", "p", "o", "s", "s", "í", "v",
      "e", "l", " ", "b", "a", "i", "x", "a", "r", " ", "o", " ", "m", "o",
      "d", "e", "l", "o", " ", "'">>
    \o model_name \o
    <<"'", ".", " ", "M", "o", "d", "e", "l", "o", "s", " ", "d", "i", "s",
      "p", "o", "n", "í", "v", "e", "i", "s", ":", " ">>
    \o comma_join(model_names) \o
    <<"\n", "E", "r", "r", "o", ":", " ">> \o e

\* the outer handler re-raises unless the text holds "not found"
Reraised(e) ==
    ~contains(lower(e), <<"n", "o", "t", " ", "f", "o", "u", "n", "d">>)

IsLocal(local, model_name) == \E i \in 1..Len(local) : local[i] = model_name

\* _check_model_availability(): list the server's models, pull the model
\* when it is not among them
_check_model_availability(self, local, list_outcome, pull_outcome) ==
    IF list_outcome.raised
    THEN [raised |-> Reraised(list_outcome.error),
          error |-> list_outcome.error, local |-> local]
    ELSE IF IsLocal(local, self.model_name)
    THEN [raised |-> FALSE, error |-> <<>>, local |-> local]
    ELSE IF ~pull_outcome.raised
    THEN [raised |-> FALSE, error |-> <<>>,
          local |-> Append(local, self.model_name)]
    ELSE LET e == PullFailedMessage(self.model_name, local,
                                    pull_outcome.error)
         IN  [raised |-> Reraised(e), error |-> e, local |-> local]

\* _initialize_model(): build the LangChain client for self.model_name
_initialize_model(self, client_outcome) ==
    IF client_outcome.raised
    THEN [self |-> self, raised |-> TRUE, error |-> client_outcome.error]
    ELSE [self |-> [self EXCEPT !.llm = [model |-> self.model_name]],
          raised |-> FALSE, error |-> <<>>]

\* OllamaLLM(model_name=model_name); _check_ollama_availability is the
\* server answering list() at all
OllamaLLM(model_name, local, list_outcome, pull_outcome, client_outcome) ==
    LET self == [model_name |-> model_name, llm |-> None]
        checked == _check_model_availability(self, local, list_outcome,
                                             pull_outcome)
        initialized == _initialize_model(self, client_outcome)
    IN  IF list_outcome.raised \/ checked.raised \/ initialized.raised
        THEN [raised |-> TRUE, self |-> self, local |-> checked.local]
        ELSE [raised |-> FALSE, self |-> initialized.self,
              local |-> checked.local]

\* switch_model(model_name)
switch_model(self, local, model_name, list_outcome, pull_outcome, client) ==
    LET old_model == self.model_name
        switched == [self EXCEPT !.model_name = model_name]
        checked == _check_model_availability(switched, local, list_outcome,
                                             pull_outcome)
        initialized == _initialize_model(switched, client)
    IN  IF checked.raised
        THEN [self |-> [switched EXCEPT !.model_name = old_model],
              local |-> checked.local, raised |-> TRUE,
              error |-> checked.error]
        ELSE IF initialized.raised
        THEN [self |-> [initialized.self EXCEPT !.model_name = old_model],
              local |-> checked.local, raised |-> TRUE,
              error |-> initialized.error]
        ELSE [self |-> initialized.self, local |-> checked.local,
              raised |-> FALSE, error |-> <<>>]

\* download_model(model_name)
download_model(self, local, model_name, pull_outcome) ==
    IF pull_outcome.raised
    THEN [self |-> self, local |-> local, raised |-> TRUE,
          error |-> <<"E", "r", "r", "o", " ", "a", "o", " ", "b", "a", "i",
                      "x", "a", "r", " ", "m", "o", "d", "e", "l", "o", " ",
                      "'">>
                    \o model_name \o <<"'", ":", " ">> \o pull_outcome.error]
    ELSE [self |-> self, raised |-> FALSE, error |-> <<>>,
          local |-> IF IsLocal(local, model_name) THEN local
                    ELSE Append(local, model_name)]

\* the other components of the repository are not in use
EngineIdle ==
    /\ is_indexed = FALSE
    /\ retriever = None
    /\ retriever_config = DefaultRetrieverConfig
    /\ vectorstore = None
    /\ last = NoCall

\* the models the server holds when the client is constructed
InitialLocals == {<<>>} \cup {<<model_name>> : model_name \in ModelNames}

\* the clients a normally returning OllamaLLM(...) leaves
InitLLM ==
    /\ \E model_name \in ModelNames, local \in InitialLocals,
          list_outcome \in Outcomes(ListErrors),
          pull_outcome \in Outcomes(PullErrors),
          client_outcome \in Outcomes({<<"v", "a", "l", "i", "d">>}) :
         LET r == OllamaLLM(model_name, local, list_outcome, pull_outcome,
                            client_outcome)
         IN  /\ ~r.raised
             /\ ollama = [op |-> "__init__", self |-> r.self,
                          local |-> r.local]
    /\ assistant = Idle
    /\ capacity = Idle
    /\ EngineIdle
    /\ documents = <<>>
    /\ found = NotFound
    /\ review = NoReview

SwitchModel ==
    \E model_name \in ModelNames, list_outcome \in Outcomes(ListErrors),
       pull_outcome \in Outcomes(PullErrors),
       client_outcome \in Outcomes({<<"v", "a", "l", "i", "d">>}) :
        LET r == switch_model(ollama.self, ollama.local, model_name,
                              list_outcome, pull_outcome, client_outcome)
        IN  /\ ollama' = [op |-> "switch_model", self |-> r.self,
                          local |-> r.local,
                          args |-> [model_name |-> model_name,
                                    list_outcome |-> list_outcome,
                                    pull_outcome |-> pull_outcome,
                                    client_outcome |-> client_outcome],
                          before |-> [self |-> ollama.self,
                                      local |-> ollama.local],
                          raised |-> r.raised, error |-> r.error]
            /\ UNCHANGED <<engineVars, searchVars, reviewVars,
                           assistant, capacity>>

DownloadModel ==
    \E model_name \in ModelNames, pull_outcome \in Outcomes(PullErrors) :
        LET r == download_model(ollama.self, ollama.local, model_name,
                                pull_outcome)
        IN  /\ ollama' = [op |-> "download_model", self |-> r.self,
                          local |-> r.local,
                          args |-> [model_name |-> model_name,
                                    pull_outcome |-> pull_outcome],
                          before |-> [self |-> ollama.self,
                                      local |-> ollama.local],
                          raised |-> r.raised, error |-> r.error]
            /\ UNCHANGED <<engineVars, searchVars, reviewVars,
                           assistant, capacity>>

NextLLM == SwitchModel \/ DownloadModel

SpecLLM == InitLLM /\ [][NextLLM]_vars

(***************************************************************************)
(* CodeAssistant: a loader, a generator and a SimpleSearchEngine over the  *)
(* loaded documents.  self is [loader, llm, search_engine, documents,      *)
(* is_ready]; search_engine is None or the engine with its document list.  *)
(***************************************************************************)
\* what loader.load(code_path, file_pattern) does: the files, or it raises
AssistantLoads ==
    {[raised |-> FALSE, docs |-> d, error |-> <<>>] :
        d \in {<<>>, <<NotesDoc, EmptyDoc>>, <<EmptyDoc, LoaderDoc, NotesDoc>>}}
    \cup {[raised |-> TRUE, docs |-> <<>>, error |-> <<e>>] : e \in LoaderErrors}

\* CodeAssistant()
NewAssistant ==
    [loader |-> None, llm |-> None, search_engine |-> None,
     documents |-> <<>>, is_ready |-> FALSE]

\* setup(code_path, file_pattern); get_llm builds the generator or raises
setup(self, get_llm, load) ==
    LET with_loader == [self EXCEPT !.loader = [type |-> "python"]]
        with_llm == [with_loader EXCEPT !.llm = [type |-> "ollama"]]
        loaded == [with_llm EXCEPT !.documents = load.docs]
        searchable ==
            [loaded EXCEPT !.search_engine = [documents |-> loaded.documents]]
    IN  IF get_llm.raised THEN [self |-> with_loader, result |-> FALSE]
        ELSE IF load.raised THEN [self |-> with_llm, result |-> FALSE]
        ELSE IF loaded.documents = <<>> THEN [self |-> loaded, result |-> FALSE]
        ELSE [self |-> [searchable EXCEPT !.is_ready = TRUE], result |-> TRUE]

\* reload_documents(code_path, file_pattern)
reload_documents(self, load) ==
    LET loaded == [self EXCEPT !.documents = load.docs]
    IN  IF self.loader = None \/ load.raised
        THEN [self |-> self, result |-> FALSE]
        ELSE IF loaded.documents = <<>> THEN [self |-> loaded, result |-> FALSE]
        ELSE [self |-> [loaded EXCEPT
                           !.search_engine = [documents |-> loaded.documents]],
              result |-> TRUE]

\* len("\n\n".join(context_parts)), each part "[ARQUIVO i: path]\ncontent"
context_len(context_parts) ==
    SumSeq([n \in 1..Len(context_parts) |->
               Len(<<"[", "A", "R", "Q", "U", "I", "V", "O", " ", "i", ":", " ">>)
               + Len(context_parts[n].file) + Len(<<"]", "\n">>)
               + Len(context_parts[n].content)
               + (IF n > 1 THEN 2 ELSE 0)])

\* a plausible slip: the not-found return flagged as an error
NotFoundAnswer_AsError ==
    [answer |-> <<"Não encontrei informações relevantes no código para sua pergunta.">>,
     sources |-> <<>>, error |-> TRUE]

\* the dict returned when the search finds no context
NotFoundAnswer ==
    [answer |-> <<"Não encontrei informações relevantes no código para sua pergunta.">>,
     sources |-> <<>>, error |-> FALSE]

\* ask_question(question, max_context_docs); generator is what llm.ask
\* does; asked counts the calls of llm.ask
ask_question(self, question, max_context_docs, generator) ==
    IF ~self.is_ready
    THEN [result |->
             [answer |-> <<"Sistema não está pronto. Execute setup() primeiro.">>,
              sources |-> <<>>, error |-> TRUE],
          asked |-> 0]
    ELSE LET r == find_relevant_context(self.search_engine.documents,
                                        question, max_context_docs)
         IN  IF context_len(r.context_parts) = 0
             THEN [result |-> NotFoundAnswer, asked |-> 0]
             ELSE IF generator.raised
             THEN [result |->
                      [answer |-> <<"Erro ao processar pergunta: ">>
                                  \o generator.error,
                       sources |-> <<>>, error |-> TRUE],
                   asked |-> 1]
             ELSE [result |-> [answer |-> <<"answer">>, sources |-> r.sources,
                               error |-> FALSE],
                   asked |-> 1]

\* CodeAssistant.get_system_info()
assistant_info(self) ==
    IF ~self.is_ready THEN [ready |-> FALSE]
    ELSE [ready |-> TRUE, documents_count |-> Len(self.documents),
          files |-> [i \in 1..Len(self.search_engine.documents) |->
                        source_of(self.search_engine.documents[i],
                                  <<"N", "/", "A">>)]]

InitAssistant ==
    /\ assistant = [op |-> "__init__", self |-> NewAssistant]
    /\ ollama = Idle
    /\ capacity = Idle
    /\ EngineIdle
    /\ documents = <<>>
    /\ found = NotFound
    /\ review = NoReview

Setup ==
    \E get_llm \in Outcomes({<<"Ollama Error">>}), load \in AssistantLoads :
        LET r == setup(assistant.self, get_llm, load)
        IN  /\ assistant' = [op |-> "setup", self |-> r.self,
                             args |-> [get_llm |-> get_llm, load |-> load],
                             before |-> assistant.self, result |-> r.result]
            /\ UNCHANGED <<engineVars, searchVars, reviewVars, ollama,
                           capacity>>

ReloadDocuments ==
    \E load \in AssistantLoads :
        LET r == reload_documents(assistant.self, load)
        IN  /\ assistant' = [op |-> "reload_documents", self |-> r.self,
                             args |-> [load |-> load],
                             before |-> assistant.self, result |-> r.result]
            /\ UNCHANGED <<engineVars, searchVars, reviewVars, ollama,
                           capacity>>

AskQuestion ==
    \E question \in Questions, max_context_docs \in 0..MaxMaxDocs,
       generator \in Outcomes({<<e>> : e \in LLMErrors}) :
        LET r == ask_question(assistant.self, question, max_context_docs,
                              generator)
        IN  /\ assistant' = [op |-> "ask_question", self |-> assistant.self,
                             args |-> [question |-> question,
                                       max_context_docs |-> max_context_docs,
                                       generator |-> generator],
                             before |-> assistant.self, result |-> r.result,
                             asked |-> r.asked]
            /\ UNCHANGED <<engineVars, searchVars, reviewVars, ollama,
                           capacity>>

NextAssistant == Setup \/ ReloadDocuments \/ AskQuestion

SpecAssistant == InitAssistant /\ [][NextAssistant]_vars

(***************************************************************************)
(* BaseCapacity.execute: format the prompt, ask the engine (or the         *)
(* generator when the engine is not indexed), parse the answer.            *)
(***************************************************************************)
\* the characters of a text the engine returns, given as its pieces; the
\* generator's answer is a review of one problem and a summary
RECURSIVE text_of(_)
text_of(pieces) ==
    IF pieces = <<>> THEN <<>>
    ELSE (CASE pieces[1] = "Erro interno: " ->
                 <<"E", "r", "r", "o", " ", "i", "n", "t", "e", "r", "n",
                   "o", ":", " ">>
            [] pieces[1] = "Erro ao processar pergunta: " ->
                 <<"E", "r", "r", "o", " ", "a", "o", " ", "p", "r", "o",
                   "c", "e", "s", "s", "a", "r", " ", "p", "e", "r", "g",
                   "u", "n", "t", "a", ":", " ">>
            [] pieces[1] = "LLM Error" ->
                 <<"L", "L", "M", " ", "E", "r", "r", "o", "r">>
            [] pieces[1] = "Embedding Error" ->
                 <<"E", "m", "b", "e", "d", "d", "i", "n", "g", " ", "E",
                   "r", "r", "o", "r">>
            [] pieces[1] = "Vector store nao foi inicializado. Adicione documentos primeiro." ->
                 <<"V", "e", "c", "t", "o", "r", " ", "s", "t", "o", "r",
                   "e", " ", "n", "a", "o", " ", "f", "o", "i", " ", "i",
                   "n", "i", "c", "i", "a", "l", "i", "z", "a", "d", "o",
                   ".", " ", "A", "d", "i", "c", "i", "o", "n", "e", " ",
                   "d", "o", "c", "u", "m", "e", "n", "t", "o", "s", " ",
                   "p", "r", "i", "m", "e", "i", "r", "o", ".">>
            [] pieces[1] = "answer" -> ProblemsParenthesis \o SummaryText)
         \o text_of(Tail(pieces))

\* execute(**kwargs) of a capacity over the engine self; format_raises is
\* the prompt template naming a placeholder the context lacks
execute(self, format_raises, invoke, llm) ==
    LET asked == ask(self, FALSE, [k |-> 3], invoke, llm)
        response == IF self.is_indexed THEN text_of(asked.result.answer)
                    ELSE text_of(<<llm.answer>>)
    IN  IF format_raises
        THEN [called |-> FALSE, calls |-> NoCalls,
              result |-> [success |-> FALSE, data |-> EmptyDict,
                          errors |-> <<"'usage_context'">>]]
        ELSE IF ~self.is_indexed /\ llm.raised
        THEN [called |-> FALSE, calls |-> [NoCalls EXCEPT !.llm_ask = 1],
              result |-> [success |-> FALSE, data |-> EmptyDict,
                          errors |-> <<llm.error>>]]
        ELSE [called |-> self.is_indexed, asked |-> asked,
              calls |-> IF self.is_indexed THEN asked.calls
                        ELSE [NoCalls EXCEPT !.llm_ask = 1],
              result |-> process_response(response)]

Execute ==
    \E format_raises \in BOOLEAN, invoke_raised \in BOOLEAN,
       llm_raised \in BOOLEAN, n \in 0..MaxStore :
        LET invoke == IF invoke_raised
                      THEN [raised |-> TRUE, n |-> 0,
                            error |-> CHOOSE e \in RetrieverErrors : TRUE]
                      ELSE [raised |-> FALSE, n |-> n, error |-> ""]
            llm == IF llm_raised
                   THEN [raised |-> TRUE, answer |-> "",
                         error |-> CHOOSE e \in LLMErrors : TRUE]
                   ELSE [raised |-> FALSE, answer |-> "answer", error |-> ""]
        IN  \E r \in {execute(Self, format_raises, invoke, llm)} :
            /\ IF r.calls.invoke = 1 /\ ~invoke_raised
               THEN n \in RetrievedCounts(r.asked.used, vectorstore)
               ELSE n = 0
            /\ invoke_raised => r.calls.invoke = 1
            /\ llm_raised => r.calls.llm_ask = 1
            /\ capacity' = [op |-> "execute", indexed |-> is_indexed,
                            args |-> [format_raises |-> format_raises,
                                      invoke_raised |-> invoke_raised,
                                      llm_raised |-> llm_raised],
                            calls |-> r.calls, result |-> r.result]
            /\ last' = IF r.called
                       THEN [op |-> "ask",
                             args |-> [kw |-> [k |-> 3],
                                       include_sources |-> FALSE,
                                       invoke_raised |-> invoke_raised,
                                       llm_raised |-> llm_raised],
                             result |-> r.asked.result, calls |-> r.calls,
                             used |-> r.asked.used]
                       ELSE last
            /\ UNCHANGED <<is_indexed, retriever, retriever_config,
                           vectorstore, searchVars, reviewVars, ollama,
                           assistant>>

NextCapacity == SetupPipeline \/ ClearIndex \/ Execute

SpecCapacity == Init /\ [][NextCapacity]_vars

(***************************************************************************)
(* Properties of RAGEngine, checked under Spec.                            *)
(*                                                                         *)
(* A step of the engine is named by last'.op; the unprimed variables are   *)
(* the engine before the call, the primed ones the engine after it.        *)
(***************************************************************************)
IsCall(op) == last'.op = op

\* the documents the store holds
HeldDocuments(vs) ==
    IF vs = None THEN {} ELSE {vs.collection[i] : i \in 1..Len(vs.collection)}

\* C1: an ask on an engine whose is_indexed is false returns the not-indexed
\* error result and calls neither the store, nor a retriever, nor the
\* generator.
C1_AskNotIndexed ==
    [][(IsCall("ask") /\ ~is_indexed) =>
         /\ last'.result.status = "error"
         /\ last'.result = NotIndexedResult
         /\ last'.calls = NoCalls
         /\ last'.used = None]_vars

\* C1 witness: an ask was answered with the not-indexed result by an engine
\* that is not indexed although a failed setup_pipeline left it a retriever
C1_Witness ==
    /\ last.op = "ask"
    /\ ~is_indexed
    /\ retriever # None
    /\ last.result = NotIndexedResult

\* C2: a setup_pipeline whose loader returns no documents returns an error
\* with documents_loaded = 0, keeps is_indexed and retriever, and calls
\* neither add_documents nor get_retriever.
C2_EmptyLoad ==
    [][(/\ IsCall("setup_pipeline")
        /\ ~last'.args.load.raised
        /\ last'.args.load.docs = <<>>) =>
         /\ last'.result.status = "error"
         /\ last'.result.documents_loaded = 0
         /\ is_indexed' = is_indexed
         /\ retriever' = retriever
         /\ last'.calls.add_documents = 0
         /\ last'.calls.get_retriever = 0]_vars

\* C2 witness: the empty load was rejected by an engine that stays Indexed
C2_Witness ==
    /\ last.op = "setup_pipeline"
    /\ ~last.args.load.raised
    /\ last.args.load.docs = <<>>
    /\ last.result.status = "error"
    /\ is_indexed
    /\ retriever # None

\* the loader returned documents and the store took them
Accepted(call) ==
    /\ ~call.args.load.raised
    /\ call.args.load.docs # <<>>
    /\ call.args.add_outcome = "ok"

\* C3: a setup_pipeline that returns status "error" leaves is_indexed, the
\* retriever and the documents held by the store as they were.
C3_ErrorKeepsState ==
    [][(IsCall("setup_pipeline") /\ last'.result.status = "error") =>
         /\ is_indexed' = is_indexed
         /\ retriever' = retriever
         /\ HeldDocuments(vectorstore') = HeldDocuments(vectorstore)]_vars

\* C4: when the loader returns documents, the store accepts them and builds
\* a retriever from retriever_config, setup_pipeline returns "success" with
\* the counts of the loaded documents and of the ids, and the engine is
\* Indexed with a retriever.
C4_SetupSucceeds ==
    [][(/\ IsCall("setup_pipeline")
        /\ Accepted(last')
        /\ ~get_retriever(vectorstore', retriever_config).raised) =>
         /\ last'.result.status = "success"
         /\ last'.result.documents_loaded = Len(last'.args.load.docs)
         /\ last'.result.documents_indexed =
                Len(split_documents(last'.args.load.docs))
         /\ is_indexed'
         /\ retriever' # None]_vars

\* the delete of the store did not raise during the call
Deleted(call) == call.op = "clear_index" /\ call.result.error = <<>>

\* C5 as stated, for an Indexed engine: after clear_index returns, whatever
\* the delete of the store did, the engine is Empty.
C5_ClearAlwaysEmpties ==
    [][(IsCall("clear_index") /\ is_indexed) =>
         (~is_indexed' /\ retriever' = None)]_vars

\* C5 as amended: clear_index never raises.  When the delete of the store
\* does not raise, the engine is Empty afterwards, a following ask returns
\* the not-indexed result and a second clear_index changes nothing; when the
\* delete raises, is_indexed, the retriever and the store stay as they were.
C5_ClearEmptiesUnlessDeleteFails ==
    [][/\ IsCall("clear_index") =>
            /\ last'.result.status = "returned"
            /\ IF Deleted(last')
               THEN ~is_indexed' /\ retriever' = None /\ vectorstore' = None
               ELSE /\ is_indexed' = is_indexed
                    /\ retriever' = retriever
                    /\ vectorstore' = vectorstore
       /\ (Deleted(last) /\ IsCall("ask")) => last'.result = NotIndexedResult
       /\ (Deleted(last) /\ IsCall("clear_index")) =>
            /\ Deleted(last')
            /\ UNCHANGED <<is_indexed, retriever, retriever_config, vectorstore>>
      ]_vars

\* C5 witness: a clear_index whose delete succeeded left the engine Empty
C5_Witness ==
    /\ Deleted(last)
    /\ last.args.delete_ok
    /\ ~is_indexed
    /\ retriever = None
    /\ vectorstore = None

\* the text e is part of the message
InMessage(e, message) == \E i \in 1..Len(message) : message[i] = e

\* C6: when llm.ask raises during an ask on an Indexed engine, ask returns
\* status "error" with the text of the exception in its message and leaves
\* is_indexed, retriever and retriever_config as they were; the ask that
\* follows, with a retriever and a generator that work, succeeds.
C6_GeneratorFailure ==
    [][/\ (IsCall("ask") /\ is_indexed /\ last'.args.llm_raised) =>
            /\ last'.result.status = "error"
            /\ \A e \in LLMErrors :
                   InMessage(e, last'.result.answer)
                   /\ InMessage(e, last'.result.error)
            /\ UNCHANGED <<is_indexed, retriever, retriever_config>>
       /\ (/\ last.op = "ask" /\ last.args.llm_raised
           /\ IsCall("ask")
           /\ last'.args.kw = EmptyDict
           /\ ~last'.args.invoke_raised
           /\ ~last'.args.llm_raised) =>
            last'.result.status = "success"
      ]_vars

\* C6 witness: the generator raised during an ask on an Indexed engine
C6_Witness ==
    /\ last.op = "ask"
    /\ last.args.llm_raised
    /\ last.calls.llm_ask = 1
    /\ is_indexed
    /\ last.result.status = "error"

\* C7: update_retriever_config(**kw) merges kw into retriever_config; on an
\* Indexed engine a call that returns has rebuilt the retriever from the
\* whole updated configuration; on an engine that is not Indexed the
\* retriever is None afterwards and none is built; the next successful
\* setup_pipeline builds its retriever from the saved configuration.
C7_UpdateRetrieverConfig ==
    [][/\ IsCall("update_retriever_config") =>
            /\ DOMAIN retriever_config' =
                   DOMAIN retriever_config \cup DOMAIN last'.args.kw
            /\ \A key \in DOMAIN retriever_config' :
                   retriever_config'[key] =
                       IF key \in DOMAIN last'.args.kw
                       THEN last'.args.kw[key] ELSE retriever_config[key]
            /\ (is_indexed /\ last'.result.status = "returned") =>
                   /\ last'.calls.get_retriever = 1
                   /\ retriever' # None
                   /\ retriever' =
                          get_retriever(vectorstore, retriever_config').retriever
            /\ ~is_indexed =>
                   /\ retriever' = None
                   /\ last'.calls.get_retriever = 0
       /\ (IsCall("setup_pipeline") /\ last'.result.status = "success") =>
            /\ UNCHANGED retriever_config
            /\ retriever' =
                   get_retriever(vectorstore', retriever_config).retriever
      ]_vars

\* the chunks of the collection, none when there is no collection
Collection(vs) == IF vs = None THEN <<>> ELSE vs.collection

\* C8 as stated: after a second successful setup_pipeline on the same engine
\* and store, the store holds exactly the chunks of the second load.
C8_ReindexReplaces ==
    [][(/\ IsCall("setup_pipeline")
        /\ last'.result.status = "success"
        /\ is_indexed) =>
         Collection(vectorstore') = split_documents(last'.args.load.docs)]_vars

\* C8 as amended: a successful setup_pipeline adds to the store: afterwards
\* the store holds every chunk it held before, followed by the chunks of
\* the new load (a document loaded twice is held twice).  It holds exactly
\* the new load only when there was no collection before the call.
C8_ReindexAccumulates ==
    [][(IsCall("setup_pipeline") /\ last'.result.status = "success") =>
         Collection(vectorstore') =
             Collection(vectorstore) \o split_documents(last'.args.load.docs)]_vars

\* C8 witness: after a successful setup_pipeline that loaded small.py alone
\* the store still holds a chunk of large.py, which an earlier call loaded
C8_Witness ==
    /\ last.op = "setup_pipeline"
    /\ last.result.status = "success"
    /\ last.args.load.docs = <<SmallDoc>>
    /\ \E i \in 1..Len(Collection(vectorstore)) :
           Collection(vectorstore)[i].source = LargeDoc.source

\* C9: an ask with non-empty retriever_kwargs K builds one retriever from K
\* alone and retrieves through it, leaving retriever and retriever_config
\* as they were; an ask without K retrieves through self.retriever.
C9_TemporaryRetriever ==
    [][(IsCall("ask") /\ is_indexed) =>
         /\ UNCHANGED <<retriever, retriever_config, is_indexed>>
         /\ last'.args.kw # EmptyDict =>
              /\ last'.calls.get_retriever = 1
              /\ last'.calls.invoke = 1 =>
                   /\ last'.used.search_type =
                          Arg(last'.args.kw, "search_type", "similarity")
                   /\ last'.used.search_kwargs.k = Arg(last'.args.kw, "k", 4)
         /\ last'.args.kw = EmptyDict =>
              /\ last'.calls.get_retriever = 0
              /\ last'.calls.invoke = 1
              /\ last'.used = retriever
      ]_vars

\* C9 witness: an ask retrieved through a temporary retriever that differs
\* from the configured one, which is still in place
C9_Witness ==
    /\ last.op = "ask"
    /\ last.args.kw # EmptyDict
    /\ last.calls.invoke = 1
    /\ last.used # retriever
    /\ retriever # None

\* C24: in every reachable state is_indexed is true exactly when retriever
\* is not None: get_system_info never reports "not_indexed" with
\* has_retriever, nor "indexed" without.
C24_IndexedIffRetriever ==
    (get_system_info(Self).status = "indexed")
        <=> get_system_info(Self).has_retriever

\* C25: in every reachable Indexed state the active retriever is the one
\* built from the current retriever_config, also after an
\* update_retriever_config whose rebuild fails.
C25_RetrieverFromConfig ==
    is_indexed =>
        /\ ~get_retriever(vectorstore, retriever_config).raised
        /\ retriever = get_retriever(vectorstore, retriever_config).retriever

(***************************************************************************)
(* Properties of SimpleSearchEngine, checked under SpecSearch.             *)
(***************************************************************************)
\* C10: for max_docs >= 0, find_relevant_context returns at most max_docs
\* sources, and as many context segments as sources.
C10_BoundedOutput ==
    (found.op = "find_relevant_context" /\ found.max_docs >= 0) =>
        /\ Len(found.sources) <= found.max_docs
        /\ Len(found.context_parts) = Len(found.sources)

\* C10 witness: more documents are relevant than max_docs allows, and
\* exactly max_docs sources came back
C10_Witness ==
    /\ found.op = "find_relevant_context"
    /\ found.max_docs >= 1
    /\ Len(found.sources) = found.max_docs
    /\ Len(documents) > found.max_docs
    /\ \A i \in 1..Len(documents) :
           _calculate_relevance_score(lower(found.question), documents[i]) > 0

\* the score the engine gives documents[i] for the question last asked
ScoreOf(i) == _calculate_relevance_score(lower(found.question), documents[i])

\* the place in the corpus of the document a source descriptor names
PlaceOf(file) ==
    CHOOSE i \in 1..Len(documents) :
        source_of(documents[i], <<"N", "/", "A">>) = file

\* C11: every source descriptor returned by find_relevant_context has
\* score > 0, and a document whose score is 0 is in neither the context nor
\* the sources, also when it is among the top max_docs.
C11_Exclusion ==
    found.op = "find_relevant_context" =>
        /\ \A n \in 1..Len(found.sources) :
               /\ found.sources[n].score > 0
               /\ found.sources[n].score = ScoreOf(PlaceOf(found.sources[n].file))
        /\ \A i \in 1..Len(documents) :
               ScoreOf(i) = 0 =>
                   LET file == source_of(documents[i], <<"N", "/", "A">>)
                   IN  /\ \A n \in 1..Len(found.sources) :
                              found.sources[n].file # file
                       /\ \A n \in 1..Len(found.context_parts) :
                              found.context_parts[n].file # file

\* C11 witness: a document of score 0 is among the top max_docs, so fewer
\* than max_docs sources come back although the corpus has that many
C11_Witness ==
    /\ found.op = "find_relevant_context"
    /\ found.max_docs >= 2
    /\ Len(documents) >= found.max_docs
    /\ Cardinality({i \in 1..Len(documents) : ScoreOf(i) > 0}) < found.max_docs
    /\ Len(found.sources) >= 1
    /\ Len(found.sources) < found.max_docs

\* C12: the sources are ordered by score descending, two documents of equal
\* score appear in their corpus order, and the context segments follow the
\* order of the sources.
C12_Ordered ==
    found.op = "find_relevant_context" =>
        /\ \A m, n \in 1..Len(found.sources) :
               m < n =>
                   \/ found.sources[m].score > found.sources[n].score
                   \/ /\ found.sources[m].score = found.sources[n].score
                      /\ PlaceOf(found.sources[m].file)
                             < PlaceOf(found.sources[n].file)
        /\ Len(found.context_parts) = Len(found.sources)
        /\ \A n \in 1..Len(found.sources) :
               /\ found.context_parts[n].file = found.sources[n].file
               /\ found.context_parts[n].tag = found.sources[n].index
               /\ found.context_parts[n].content =
                      documents[PlaceOf(found.sources[n].file)].page_content

\* C12 witness: two sources tie, a third has a lower score, and a document
\* that precedes them in the corpus is ranked after them
C12_Witness ==
    /\ found.op = "find_relevant_context"
    /\ \E m, n, k \in 1..Len(found.sources) :
           /\ m < n /\ n < k
           /\ found.sources[m].score = found.sources[n].score
           /\ found.sources[n].score > found.sources[k].score
           /\ PlaceOf(found.sources[k].file) < PlaceOf(found.sources[n].file)

\* the four terms of the relevance score, as the specification states them
TokenOccurrences(question, doc) ==
    LET tokens == split(lower(question))
    IN  SumSeq([t \in 1..Len(tokens) |->
                   IF Len(tokens[t]) > 2
                   THEN count(lower(doc.page_content), tokens[t]) ELSE 0])

MatchingTopics(question, doc) ==
    {t \in 1..Len(keyword_mapping) :
        /\ \E k \in 1..Len(keyword_mapping[t].keywords) :
               contains(lower(question), keyword_mapping[t].keywords[k])
        /\ contains(lower(source_of(doc, <<>>)), keyword_mapping[t].component)}

SizeBonus(doc) == Len(doc.page_content) \div 1000

StructuralMarkers(doc) ==
    SumSeq([p \in 1..Len(important_patterns) |->
               count(lower(doc.page_content), important_patterns[p])])

OnlyShortTokens(question) ==
    \A t \in 1..Len(split(lower(question))) : Len(split(lower(question))[t]) <= 2

\* C14: for a query with no token longer than 2 characters the token term
\* and the topic bonus are zero for every document, each score is the size
\* bonus plus the structural-marker count, and the documents for which that
\* sum is positive are still selected (up to max_docs of them).
C14_ShortTokens ==
    (found.op = "find_relevant_context" /\ OnlyShortTokens(found.question)) =>
        /\ \A i \in 1..Len(documents) :
               /\ MatchingTopics(found.question, documents[i]) = {}
               /\ ScoreOf(i) = SizeBonus(documents[i])
                                   + StructuralMarkers(documents[i])
        /\ found.max_docs >= 0 =>
               Len(found.sources) =
                   Min(found.max_docs,
                       Cardinality({i \in 1..Len(documents) :
                           SizeBonus(documents[i])
                               + StructuralMarkers(documents[i]) > 0}))

\* C14 witness: a question of two one-letter words, one of them occurring
\* in the content of a document that is selected on its size and markers
\* alone
C14_Witness ==
    /\ found.op = "find_relevant_context"
    /\ OnlyShortTokens(found.question)
    /\ Len(split(lower(found.question))) = 2
    /\ \E n \in 1..Len(found.sources) :
           LET doc == documents[PlaceOf(found.sources[n].file)]
           IN  /\ SizeBonus(doc) > 0
               /\ found.sources[n].score = SizeBonus(doc) + StructuralMarkers(doc)
               /\ \E t \in 1..2 :
                      contains(lower(doc.page_content),
                               split(lower(found.question))[t])

(***************************************************************************)
(* Properties of the response parser, checked under SpecReview.            *)
(***************************************************************************)
\* process_response has returned
Returned == review.op = "process_response"

\* a response has been processed into a review
Processed == Returned /\ review.result.success

\* the four headers
Headers ==
    {PROBLEMAS_ENCONTRADOS, SUGESTOES_DE_MELHORIA, PONTOS_POSITIVOS,
     RESUMO_HEADER}

\* the header occurs in the text, in any case
HasHeader(text, header) == contains(lower(text), header)

\* the placeholder the specification gives a missing summary
Placeholder ==
    <<"A", "n", "á", "l", "i", "s", "e", " ", "d", "e", " ", "c", "ó", "d",
      "i", "g", "o", " ", "c", "o", "n", "c", "l", "u", "í", "d", "a", ".">>

\* C15: for the empty string and every text with none of the four headers,
\* process_response returns success with no issue, suggestion or positive
\* and the placeholder summary; a missing section yields its empty or
\* default value and leaves what the other sections yield as it is.
C15_GracefulDegradation ==
    /\ (Returned /\ \A h \in Headers : ~HasHeader(review.response, h)) =>
           review.result.success
    /\ Processed =>
        LET text == review.response
            result == review.result.review
        IN  /\ ~HasHeader(text, PROBLEMAS_ENCONTRADOS) => result.issues = <<>>
            /\ ~HasHeader(text, SUGESTOES_DE_MELHORIA) =>
                   result.suggestions = <<>>
            /\ ~HasHeader(text, PONTOS_POSITIVOS) => result.positives = <<>>
            /\ ~HasHeader(text, RESUMO_HEADER) => result.summary = Placeholder
            /\ \A pre \in Prefaces, p \in ProblemBlocks, s \in SuggestionBlocks,
                  q \in PositiveBlocks, r \in SummaryBlocks :
                   (/\ text = pre \o p \o s \o q \o r
                    /\ <<>> \in {p, s, q, r}) =>
                       /\ result.issues = process_response(p).review.issues
                       /\ result.suggestions =
                              process_response(s).review.suggestions
                       /\ result.positives =
                              process_response(q).review.positives
                       /\ result.summary = process_response(r).review.summary

\* C15 witness: a text with a bullet line but no header yields nothing but
\* the placeholder
C15_Witness ==
    /\ Processed
    /\ review.response = Preface
    /\ review.result.success
    /\ review.result.review =
           [issues |-> <<>>, suggestions |-> <<>>, positives |-> <<>>,
            summary |-> Placeholder]

\* the text that follows the first occurrence of the header
After(text, header) ==
    LET starts == {i \in 1..Len(text) : OccursAt(lower(text), header, i)}
    IN  SubSeq(text, MinOf(starts) + Len(header), Len(text))

\* C16: the summary is never empty: it is the placeholder when the summary
\* section is missing or its body is empty once whitespace is collapsed and
\* trimmed, and otherwise the body with every run of whitespace collapsed to
\* one space.
C16_SummaryNeverEmpty ==
    Processed =>
        LET text == review.response
            summary == review.result.review.summary
        IN  /\ summary # <<>>
            /\ IF ~HasHeader(text, RESUMO_HEADER)
               THEN summary = Placeholder
               ELSE IF join(split(After(text, RESUMO_HEADER))) = <<>>
               THEN summary = Placeholder
               ELSE summary = join(split(After(text, RESUMO_HEADER)))

\* the body of a section as the specification bounds it: from the header to
\* the next header, or to the end of the text
BodyOf(text, header) ==
    LET rest == After(text, header)
        stops == {i \in 1..Len(rest) :
                     \E h \in Headers : OccursAt(lower(rest), h, i)}
    IN  IF stops = {} THEN rest ELSE SubSeq(rest, 1, MinOf(stops) - 1)

\* C17: the body parsed for a section is the text between its header and
\* the next header (or the end), in whatever order the sections come and
\* whatever words the bullet lines hold: each bullet line is parsed for its
\* own section and for no other.
C17_SectionBodies ==
    Processed =>
        LET text == review.response
            result == review.result.review
        IN  /\ HasHeader(text, PROBLEMAS_ENCONTRADOS) =>
                   result.issues =
                       issues_in(BodyOf(text, PROBLEMAS_ENCONTRADOS))
            /\ HasHeader(text, SUGESTOES_DE_MELHORIA) =>
                   result.suggestions =
                       suggestions_in(BodyOf(text, SUGESTOES_DE_MELHORIA))

\* the section body the code parses, empty when it finds no section
ParsedBody(text, header, terminators) ==
    IF section(text, header, terminators) = None THEN <<>>
    ELSE section(text, header, terminators).group1

ProblemsBody(text) ==
    ParsedBody(text, PROBLEMAS_ENCONTRADOS, {SUGESTOES, PONTOS, RESUMO})

SuggestionsBody(text) ==
    ParsedBody(text, SUGESTOES_DE_MELHORIA, {PONTOS, RESUMO})

\* a bullet line of one of the three shapes, read as the specification reads
\* it: the marker, the category (bracketed, or closed by a colon), the
\* description, and the line-number group that ends the line, if any
ShapeOf(line) ==
    LET t == strip(line)
        bracketed == OccursAt(t, <<"-", " ", "[">>, 1)
        starred == OccursAt(t, <<"*", " ">>, 1)
        dashed == OccursAt(t, <<"-", " ">>, 1) /\ ~bracketed
        closers == IF bracketed
                   THEN {c \in 5..Len(t) : OccursAt(t, <<"]", " ">>, c)}
                   ELSE {c \in 4..Len(t) : OccursAt(t, <<":", " ">>, c)}
        c == MinOf(closers)
        rest == SubSeq(t, c + 2, Len(t))
        open == IF starred THEN <<"(", "L">>
                ELSE <<"(", "l", "i", "n", "h", "a", " ">>
        groups == {k \in 1..Len(rest) :
                      /\ OccursAt(rest, open, k)
                      /\ Len(rest) > k + Len(open)
                      /\ RunOf(rest, k + Len(open), Digits) = Len(rest)
                      /\ rest[Len(rest)] = ")"}
        k == MinOf(groups)
    IN  IF ~(bracketed \/ dashed \/ starred) \/ closers = {}
        THEN [shaped |-> FALSE]
        ELSE [shaped |-> TRUE,
              category |-> strip(SubSeq(t, IF bracketed THEN 4 ELSE 3, c - 1)),
              description |->
                  IF groups = {} THEN strip(rest)
                  ELSE strip(SubSeq(rest, 1, k - 1)),
              line_number |->
                  IF groups = {} THEN None
                  ELSE [value |->
                           int(SubSeq(rest, k + Len(open), Len(rest) - 1))]]

\* every bullet line of the body has its record among the records
AllLinesExtracted(body, records) ==
    \A l \in 1..Len(split_lines(body)) :
        LET shape == ShapeOf(split_lines(body)[l])
        IN  shape.shaped =>
                \E n \in 1..Len(records) :
                    /\ records[n].category = shape.category
                    /\ records[n].description = shape.description
                    /\ records[n].line_number = shape.line_number

\* C18: every bullet line of the problems or suggestions body of the shape
\* "- [Category] Description (linha N)", "- Category: Description (linha N)"
\* or "* Category: Description (LN)" yields a record with that category and
\* that description, trimmed, and line_number N, or None when the line holds
\* no line-number group.
C18_BulletFields ==
    Processed =>
        /\ AllLinesExtracted(ProblemsBody(review.response),
                             review.result.review.issues)
        /\ AllLinesExtracted(SuggestionsBody(review.response),
                             review.result.review.suggestions)

\* C19: severity and impact are derived from the description alone: "high"
\* exactly when the lowercased description holds a word of the watchlist,
\* "medium" otherwise, never "low", whatever the category and line number.
C19_LevelFromDescription ==
    Processed =>
        LET result == review.result.review
        IN  /\ \A n \in 1..Len(result.issues) :
                   /\ result.issues[n].severity \in {"high", "medium"}
                   /\ result.issues[n].severity = "high" <=>
                          \E word \in issue_words :
                              contains(lower(result.issues[n].description), word)
            /\ \A n \in 1..Len(result.suggestions) :
                   /\ result.suggestions[n].impact \in {"high", "medium"}
                   /\ result.suggestions[n].impact = "high" <=>
                          \E word \in suggestion_words :
                              contains(lower(result.suggestions[n].description),
                                       word)

\* C19 witness: an issue is severe on a word its description writes with a
\* capital, and a suggestion whose category is a watchlist word, but whose
\* description holds none, has medium impact
C19_Witness ==
    /\ Processed
    /\ \E n \in 1..Len(review.result.review.issues) :
           LET issue == review.result.review.issues[n]
           IN  /\ issue.severity = "high"
               /\ \A word \in issue_words : ~contains(issue.description, word)
    /\ \E n \in 1..Len(review.result.review.suggestions) :
           LET suggestion == review.result.review.suggestions[n]
           IN  /\ suggestion.impact = "medium"
               /\ lower(suggestion.category) \in suggestion_words

\* the records are those of the matches of the body, taken in text order
InEncounterOrder(body, records) ==
    LET ms == all_matches(body)
    IN  /\ Len(records) = Len(ms)
        /\ \A n \in 1..Len(ms) :
               /\ records[n].category = strip(ms[n].group1)
               /\ records[n].description = strip(ms[n].group2)
        /\ \A a, b \in 1..Len(ms) : a < b => ms[a].start < ms[b].start

\* C20: issues and suggestions are returned in encounter order: of two
\* bullet lines of a section that each yield a record, the record of the
\* line that comes first in the text comes first in the list, also when the
\* section mixes the line formats.
C20_EncounterOrder ==
    Processed =>
        /\ InEncounterOrder(ProblemsBody(review.response),
                            review.result.review.issues)
        /\ InEncounterOrder(SuggestionsBody(review.response),
                            review.result.review.suggestions)

\* C28: the positional tags of the sources are 1, 2, ..., |sources| with no
\* gap, and the k-th context segment carries tag k: the documents dropped
\* for a score of 0 come after every surviving document.
C28_TagsWithoutGaps ==
    found.op = "find_relevant_context" =>
        /\ \A n \in 1..Len(found.sources) : found.sources[n].index = n
        /\ \A n \in 1..Len(found.context_parts) : found.context_parts[n].tag = n

\* C28 witness: a document of score 0 precedes a relevant one in the corpus
\* and both fit within max_docs, yet the sources are tagged from 1
C28_Witness ==
    /\ found.op = "find_relevant_context"
    /\ Len(documents) <= found.max_docs
    /\ \E i, j \in 1..Len(documents) :
           i < j /\ ScoreOf(i) = 0 /\ ScoreOf(j) > 0
    /\ Len(found.sources) >= 2
    /\ found.sources[1].index = 1

PositivesBody(text) == ParsedBody(text, PONTOS_POSITIVOS, {RESUMO})

\* what a line of the positive-points body contributes, as the specification
\* states it: nothing without a bullet marker, else the trimmed line less
\* its marker and less a leading bracketed category
EntryOf(line) ==
    LET t == strip(line)
        unmarked == strip(Tail(t))
        closes == {c \in 3..Len(unmarked) : unmarked[c] = "]"}
    IN  IF t = <<>> \/ t[1] \notin {"-", "*"} THEN <<>>
        ELSE IF unmarked # <<>> /\ unmarked[1] = "[" /\ closes # {}
        THEN strip(SubSeq(unmarked, MinOf(closes) + 1, Len(unmarked)))
        ELSE unmarked

C22_NeverRaises ==
    Returned =>
        IF review.result.success
        THEN DOMAIN review.result.review =
                 {"issues", "suggestions", "positives", "summary"}
        ELSE /\ Len(review.result.errors) = 1
             /\ review.result.errors[1] # <<>>
             /\ review.result.data = EmptyDict

\* C22 witness: a line number too long for int() makes _parse_issues raise,
\* and the response is a failure with one message
C22_Witness ==
    /\ Returned
    /\ review.response = HugeLineNumber \o SummaryText
    /\ ~review.result.success
    /\ Len(review.result.errors) = 1

\* the number of the line of body that position i lies in
LineOf(body, i) == Cardinality({j \in 1..(i - 1) : body[j] = "\n"})

\* no two records come from one line, and no field runs over a line break
OneRecordPerLine(body, records) ==
    /\ \A a, b \in 1..Len(all_matches(body)) :
           a # b => LineOf(body, all_matches(body)[a].start)
                        # LineOf(body, all_matches(body)[b].start)
    /\ \A n \in 1..Len(records) :
           /\ ~contains(records[n].category, <<"\n">>)
           /\ ~contains(records[n].description, <<"\n">>)

\* C30: each physical line of a problems or suggestions body contributes at
\* most one record: no line is reported twice and no category or description
\* spans more than one line.
C30_OneRecordPerLine ==
    Processed =>
        /\ OneRecordPerLine(ProblemsBody(review.response),
                            review.result.review.issues)
        /\ OneRecordPerLine(SuggestionsBody(review.response),
                            review.result.review.suggestions)

(***************************************************************************)
(* Properties of OllamaLLM, checked under SpecLLM.                         *)
(***************************************************************************)
\* the last call was switch_model
Switched == ollama.op = "switch_model"

\* the model asked for is not on the server and its download fails
NotObtainable ==
    /\ ~IsLocal(ollama.before.local, ollama.args.model_name)
    /\ ollama.args.pull_outcome.raised

\* C23: switch_model(m) for a model that is neither on the server nor
\* downloadable raises; after a call that raised, model_name and the client
\* are the ones before the call; after a call that returned, model_name is
\* m and the client is one built for m.
C23_SwitchModel ==
    Switched =>
        /\ NotObtainable => ollama.raised
        /\ ollama.raised => ollama.self = ollama.before.self
        /\ ~ollama.raised =>
               /\ ollama.self.model_name = ollama.args.model_name
               /\ ollama.self.llm = [model |-> ollama.args.model_name]

(***************************************************************************)
(* Properties of CodeAssistant, checked under SpecAssistant.               *)
(***************************************************************************)
\* the last call was setup or reload_documents and it returned False
LoadFailed ==
    /\ assistant.op \in {"setup", "reload_documents"}
    /\ assistant.result = FALSE

\* C26: the documents the assistant holds are the ones its search engine
\* ranks over, and get_system_info counts those; a setup or a
\* reload_documents that returns False leaves documents, search_engine and
\* is_ready as they were before the call.
C26_SameCollection ==
    /\ assistant.self.search_engine # None =>
           assistant.self.documents = assistant.self.search_engine.documents
    /\ assistant.self.is_ready =>
           assistant_info(assistant.self).documents_count
               = Len(assistant.self.search_engine.documents)
    /\ LoadFailed =>
           /\ assistant.self.documents = assistant.before.documents
           /\ assistant.self.search_engine = assistant.before.search_engine
           /\ assistant.self.is_ready = assistant.before.is_ready

\* the documents the search selects for the last question: the first
\* max_context_docs of the ranking
Selected ==
    slice_to(sort_by_score(
                 [i \in 1..Len(assistant.self.search_engine.documents) |->
                     [score |-> _calculate_relevance_score(
                                    lower(assistant.args.question),
                                    assistant.self.search_engine.documents[i])]]),
             assistant.args.max_context_docs)

\* the last call was ask_question on a ready assistant
AskedReady == assistant.op = "ask_question" /\ assistant.before.is_ready

\* C29: on a ready assistant ask_question calls the generator once when a
\* selected document scores above zero and not at all otherwise; with no
\* relevant document it returns error False, no sources and the not-found
\* answer.
C29_GeneratorCalls ==
    AskedReady =>
        IF \E i \in 1..Len(Selected) : Selected[i].score > 0
        THEN assistant.asked = 1
        ELSE /\ assistant.asked = 0
             /\ assistant.result.error = FALSE
             /\ assistant.result.sources = <<>>
             /\ assistant.result.answer =
                    <<"Não encontrei informações relevantes no código para sua pergunta.">>

\* C29 witness: a ready assistant that holds documents is asked, with
\* max_context_docs above zero, a question none of them is relevant to; the
\* generator is not called and the answer is not an error
C29_Witness ==
    /\ AskedReady
    /\ assistant.asked = 0
    /\ assistant.result.error = FALSE
    /\ assistant.self.documents # <<>>
    /\ assistant.args.max_context_docs > 0

(***************************************************************************)
(* Properties of BaseCapacity.execute, checked under SpecCapacity.         *)
(***************************************************************************)
\* the last execute ran against an indexed engine and the generator it
\* called raised
GeneratorFailed ==
    /\ capacity.op = "execute"
    /\ capacity.indexed
    /\ capacity.calls.llm_ask = 1
    /\ capacity.args.llm_raised

\* C27: an execute against an indexed engine during which the generator
\* fails returns a CapacityResponse whose success is false.
C27_FailureReported == GeneratorFailed => ~capacity.result.success

=============================================================================
